---- MODULE Spec2Model ----
(***************************************************************************)
(* Keypad firmware: button engine, encoder engine and HID dispatcher.      *)
(*                                                                         *)
(* Every operation of the firmware is one action.  The calls an operation  *)
(* makes on its collaborators (HID transport, delay, LED layer, function   *)
(* handlers, bootloader) are appended, in program order, to `calls`, which *)
(* holds the trace of the most recent operation.  A call is a triple       *)
(* <<name, argument, argument>>; unused arguments are 0.                   *)
(***************************************************************************)
EXTENDS Integers, Sequences, FiniteSets, TLC

VARIABLES
    op,                         \* name of the most recent operation
    calls,                      \* collaborator calls made by that operation
    button_bindings,            \* configuration: the button binding table
    button_state_capacity_s,    \* configuration: CONFIGURATION_BUTTON_CAPACITY
    button_state_s,             \* buttons.c: stored active flag per button
    button_state_count_s,       \* buttons.c: runtime button count
    button_state_before,        \* button_state_s when the operation started
    pins,                       \* raw pin level per button seen by the operation
    pins_hist,                  \* pin levels of setup and of every tick since
    events_hist,                \* button events since setup: <<index, mode, tick>>
    bootloader,                 \* BOOT_now() has been called
    requested,                  \* what configuration_bootloader_requested() returned
    pressed_s,                  \* led layer: pressed flag per logical LED
    pressed_before,             \* pressed_s when the operation started
    consumer_volume_pending_s,  \* hid.c: signed pending volume steps
    consumer_phase_s,           \* hid.c: 0 idle, 1 waiting to release
    pending_before,             \* consumer_volume_pending_s when the operation started
    phase_before,               \* consumer_phase_s when the operation started
    consumer_hist,              \* counted volume triggers and accepted consumer reports so far
    encoder_prev_values_s,      \* encoder.c: previous 2-bit sample per encoder
    encoder_delta_s,            \* encoder.c: accumulated delta per encoder (int8)
    encoder_state_count_s,      \* encoder.c: runtime encoder count
    encoder_bindings,           \* configuration: the encoder binding table
    encoder_state_capacity_s,   \* configuration: CONFIGURATION_ENCODER_CAPACITY
    position_form,              \* the position form of encoder.c run on the same samples
    enc_pins,                   \* <<pin_a, pin_b>> level per encoder seen by the operation
    enc_steps_hist,             \* table value added per encoder, for every tick since setup
    enc_delta_hist,             \* encoder_delta_s after setup and after every tick since
    enc_events_hist,            \* encoder events since setup: <<index, clockwise, tick>>
    delta_before,               \* encoder_delta_s when the operation started
    prev_before,                \* encoder_prev_values_s when the operation started
    run_sequence,               \* key sequence or mouse macro handed to its executor
    run_mode,                   \* trigger mode handed to the executor
    led_cfg_s,                  \* led.c: the LED configuration
    neo_reversed,               \* configuration.h: NEO_REVERSED of the build
    millis,                     \* the millisecond counter millis() reads
    last_rainbow_step_ms_s,     \* led.c: time of the last rainbow step
    last_breath_step_ms_s,      \* led.c: time of the last breathing step
    breath_percent_s,           \* led.c: shared breathing percentage
    breath_descending_s,        \* led.c: breathing direction
    rainbow_phase_s,            \* led.c: shared rainbow phase
    neo,                        \* color written per physical LED
    led_hist,                   \* what the last LED operation saw and did
    UpPoint2BusyFlag,           \* USBCDC.c: a packet is on its way on the IN endpoint
    UsbWritePointer,            \* USBCDC.c: bytes buffered for the next packet
    ControlLineState,           \* USBCDC.c: control lines set by the host (0: port closed)
    UEP2_T_RES,                 \* endpoint 2 IN response: "ACK" (armed) or "NAK"
    UEP2_T_LEN,                 \* endpoint 2 IN length register
    main                        \* the main-loop caller of the USBSerial functions

vars == <<op, calls, button_bindings, button_state_capacity_s, button_state_s,
          button_state_count_s, button_state_before, pins, pins_hist, events_hist,
          bootloader, requested, pressed_s, pressed_before, consumer_volume_pending_s, consumer_phase_s,
          pending_before, phase_before, consumer_hist, encoder_prev_values_s, encoder_delta_s,
          encoder_state_count_s, encoder_bindings, encoder_state_capacity_s,
          position_form, enc_pins, enc_steps_hist, enc_delta_hist,
          enc_events_hist, delta_before, prev_before, run_sequence, run_mode,
          led_cfg_s, neo_reversed, millis, last_rainbow_step_ms_s,
          last_breath_step_ms_s, breath_percent_s, breath_descending_s,
          rainbow_phase_s, neo, led_hist, UpPoint2BusyFlag, UsbWritePointer,
          ControlLineState, UEP2_T_RES, UEP2_T_LEN, main>>

----------------------------------------------------------------------------
(* Bounds of the model *)

MaxTicks == 2
MaxEncTicks == 8
MaxPending == 5
\* the endpoint packet size MAX_PACKET_SIZE, scaled down
MAX_PACKET_SIZE == 2
\* the polls of the busy flag waitForEndpoint makes before it gives up
\* (50000 in USBCDC.c)
WAIT_ATTEMPTS == 2
MaxSteps == 2
MaxLedUpdates == 3

----------------------------------------------------------------------------
(* Program constants *)

HID_TRIGGER_PRESS == 0
HID_TRIGGER_RELEASE == 1
HID_TRIGGER_CLICK == 2
TriggerModes == {HID_TRIGGER_PRESS, HID_TRIGGER_RELEASE, HID_TRIGGER_CLICK}

HID_CONSUMER_VOLUME_INCREMENT == 233
HID_CONSUMER_VOLUME_DECREMENT == 234
HID_CONSUMER_MUTE == 226

KEY_LEFT_CTRL == 128
KEY_LEFT_SHIFT == 129
KEY_LEFT_ALT == 130
KEY_LEFT_GUI == 131
MOUSE_LEFT == 1
MOUSE_RIGHT == 2

NEO_COUNT == 3

\* function handlers a step can be bound to (0 is the null pointer)
FN_NULL == 0
FN_VOLUME_UP == 1
FN_VOLUME_DOWN == 2
FN_MUTE == 3

\* (int8_t)v for a uint8_t v
ToInt8(v) == IF v > 127 THEN v - 256 ELSE v

\* bit `bit` (a power of two) of the mask is set
BitSet(mask, bit) == (mask \div bit) % 2 = 1

----------------------------------------------------------------------------
(* The dispatcher thread: m = [calls, pending, phase, pressed] is what a   *)
(* running handler can change.                                             *)

Call(m, name, a, b) == [m EXCEPT !.calls = Append(@, <<name, a, b>>)]

CallIf(cond, m, name, a, b) == IF cond THEN Call(m, name, a, b) ELSE m

\* led_presskey(key), which hid.c calls with the button's LED index on a
\* press and with -1 on a release; its body is not part of the sources at
\* hand.  Taken here to mark logical LED `key` pressed and every other LED
\* not pressed, so that -1 clears the mark.
led_presskey(m, key) ==
    [Call(m, "led_presskey", key, 0) EXCEPT
        !.pressed = [l \in 0..(NEO_COUNT - 1) |-> l = key]]

\* hid_consumer_volume_up counting a release as a step as well
hid_consumer_volume_up_AnyMode(m, mode) ==
    [m EXCEPT !.pending = @ + 1]

\* the consumer-control handlers a function step or binding can point to
hid_consumer_volume_up(m, mode) ==
    IF mode # HID_TRIGGER_PRESS /\ mode # HID_TRIGGER_CLICK
    THEN m
    ELSE [m EXCEPT !.pending = @ + 1]

\* hid_consumer_volume_down counting a release as a step as well
hid_consumer_volume_down_AnyMode(m, mode) ==
    [m EXCEPT !.pending = @ - 1]

hid_consumer_volume_down(m, mode) ==
    IF mode # HID_TRIGGER_PRESS /\ mode # HID_TRIGGER_CLICK
    THEN m
    ELSE [m EXCEPT !.pending = @ - 1]

hid_consumer_mute(m, mode) ==
    IF mode # HID_TRIGGER_PRESS /\ mode # HID_TRIGGER_CLICK
    THEN m
    ELSE Call(m, "Keyboard_consumer_send", HID_CONSUMER_MUTE, 0)

\* step->functionPointer(mode): the call is recorded, then the handler runs
InvokeFunction(m, fn, mode) ==
    LET c == Call(m, "functionPointer", fn, mode)
    IN  CASE fn = FN_VOLUME_UP   -> hid_consumer_volume_up(c, mode)
          [] fn = FN_VOLUME_DOWN -> hid_consumer_volume_down(c, mode)
          [] fn = FN_MUTE        -> hid_consumer_mute(c, mode)
          [] OTHER               -> c

\* while (times--) step->functionPointer(mode);
RECURSIVE RepeatFunction(_, _, _, _)
RepeatFunction(m, fn, mode, times) ==
    IF times = 0 THEN m
    ELSE RepeatFunction(InvokeFunction(m, fn, mode), fn, mode, times - 1)

\* if (gap_ms > 0) delay(gap_ms);
GapDelay(m, gap_ms) == CallIf(gap_ms > 0, m, "delay", gap_ms, 0)

\* case HID_STEP_PAUSE
StepPause(m, step) == GapDelay(m, step.gap_ms)

\* case HID_STEP_MOUSE
StepMouse(m, step) ==
    LET t == step.pointer_type
        v == step.pointer_value
        moved ==
            CASE t = "HID_POINTER_MOVE_UP"     -> Call(m, "Mouse_move", 0, -ToInt8(v))
              [] t = "HID_POINTER_MOVE_DOWN"   -> Call(m, "Mouse_move", 0, ToInt8(v))
              [] t = "HID_POINTER_MOVE_LEFT"   -> Call(m, "Mouse_move", -ToInt8(v), 0)
              [] t = "HID_POINTER_MOVE_RIGHT"  -> Call(m, "Mouse_move", ToInt8(v), 0)
              [] t = "HID_POINTER_LEFT_CLICK"  -> Call(m, "Mouse_click", MOUSE_LEFT, 0)
              [] t = "HID_POINTER_RIGHT_CLICK" -> Call(m, "Mouse_click", MOUSE_RIGHT, 0)
              [] t = "HID_POINTER_SCROLL_UP"   -> Call(m, "Mouse_scroll", v, 0)
              [] t = "HID_POINTER_SCROLL_DOWN" -> Call(m, "Mouse_scroll", -ToInt8(v), 0)
              [] OTHER                         -> m
    IN  GapDelay(moved, step.gap_ms)

\* StepFunction leaving at once when the pointer is null
StepFunction_NullSkipsGap(m, step, mode) ==
    LET times == IF step.function_value = 0 THEN 1 ELSE step.function_value
    IN  IF step.functionPointer # FN_NULL
        THEN GapDelay(RepeatFunction(m, step.functionPointer, mode, times), step.gap_ms)
        ELSE m

\* case HID_STEP_FUNCTION
StepFunction(m, step, mode) ==
    LET times == IF step.function_value = 0 THEN 1 ELSE step.function_value
        ran   == IF step.functionPointer # FN_NULL
                 THEN RepeatFunction(m, step.functionPointer, mode, times)
                 ELSE m
    IN  GapDelay(ran, step.gap_ms)

\* the modifier presses of a key step, Ctrl, Shift, Alt, GUI in that order
PressModifiers(m, mods) ==
    LET c1 == CallIf(BitSet(mods, 1), m,  "Keyboard_press", KEY_LEFT_CTRL, 0)
        c2 == CallIf(BitSet(mods, 2), c1, "Keyboard_press", KEY_LEFT_SHIFT, 0)
        c3 == CallIf(BitSet(mods, 4), c2, "Keyboard_press", KEY_LEFT_ALT, 0)
    IN  CallIf(BitSet(mods, 8), c3, "Keyboard_press", KEY_LEFT_GUI, 0)

\* the hold time of a key step
HoldMs(hold_ms) == IF hold_ms = 0 THEN 10 ELSE hold_ms

\* StepKey releasing only when it pressed a primary key
StepKey_ReleaseIfKey(m, step) ==
    LET mods    == PressModifiers(m, step.modifiers)
        key     == CallIf(step.keycode # 0, mods, "Keyboard_press", step.keycode, 0)
        held    == Call(key, "delay", HoldMs(step.hold_ms), 0)
        release == CallIf(step.keycode # 0, held, "Keyboard_releaseAll", 0, 0)
    IN  GapDelay(release, step.gap_ms)

\* StepKey pressing the primary key before the modifiers
StepKey_KeyFirst(m, step) ==
    LET key     == CallIf(step.keycode # 0, m, "Keyboard_press", step.keycode, 0)
        mods    == PressModifiers(key, step.modifiers)
        held    == Call(mods, "delay", HoldMs(step.hold_ms), 0)
        release == Call(held, "Keyboard_releaseAll", 0, 0)
    IN  GapDelay(release, step.gap_ms)

\* case HID_STEP_KEY and default
StepKey(m, step) ==
    LET mods    == PressModifiers(m, step.modifiers)
        key     == CallIf(step.keycode # 0, mods, "Keyboard_press", step.keycode, 0)
        held    == Call(key, "delay", HoldMs(step.hold_ms), 0)
        release == Call(held, "Keyboard_releaseAll", 0, 0)
    IN  GapDelay(release, step.gap_ms)

\* the switch on step->kind
RunStep(m, step, mode) ==
    CASE step.kind = "HID_STEP_PAUSE"    -> StepPause(m, step)
      [] step.kind = "HID_STEP_MOUSE"    -> StepMouse(m, step)
      [] step.kind = "HID_STEP_FUNCTION" -> StepFunction(m, step, mode)
      [] OTHER                           -> StepKey(m, step)

\* for (i = 0; i < sequence.length; i++), from step i on
RECURSIVE RunSteps(_, _, _, _)
RunSteps(m, sequence, mode, i) ==
    IF i >= sequence.length THEN m
    ELSE RunSteps(RunStep(m, sequence.steps[i], mode), sequence, mode, i + 1)

\* hid_run_key_sequence without the early return on release
hid_run_key_sequence_AnyMode(m, sequence, mode) ==
    RunSteps(m, sequence, mode, 0)

\* hid_run_key_sequence giving up after the first step
hid_run_key_sequence_OneStep(m, sequence, mode) ==
    IF mode = HID_TRIGGER_RELEASE \/ sequence.length = 0 THEN m
    ELSE RunStep(m, sequence.steps[0], mode)

hid_run_key_sequence(m, sequence, mode) ==
    IF mode = HID_TRIGGER_RELEASE THEN m
    ELSE RunSteps(m, sequence, mode, 0)

\* button_binding_count, encoder_binding_count: a table is indexed 0..count-1
BindingCount(bindings) == Cardinality(DOMAIN bindings)

hid_run_binding(m, binding, mode) ==
    IF binding.type = "HID_BINDING_SEQUENCE"
    THEN hid_run_key_sequence(m, binding.sequence, mode)
    ELSE m

\* hid_handle_button running the binding before it updates the LED
hid_handle_button_BindingFirst(m, bindings, button_index, mode) ==
    LET c == Call(m, "hid_handle_button", button_index, mode)
    IN  IF button_index >= BindingCount(bindings) THEN c
        ELSE LET binding == bindings[button_index]
                 mapped == NEO_COUNT > 0 /\ binding.led_index >= 0
                 ran == hid_run_binding(c, binding.function, mode)
             IN  IF mapped /\ mode = HID_TRIGGER_PRESS
                 THEN led_presskey(ran, binding.led_index)
                 ELSE IF mapped /\ mode = HID_TRIGGER_RELEASE
                 THEN led_presskey(ran, -1)
                 ELSE ran

\* hid_handle_button without the bound check, the index wrapping round
hid_handle_button_Wrapped(m, bindings, button_index, mode) ==
    LET c == Call(m, "hid_handle_button", button_index, mode)
        binding == bindings[button_index % BindingCount(bindings)]
        mapped == NEO_COUNT > 0 /\ binding.led_index >= 0
        led == IF mapped /\ mode = HID_TRIGGER_PRESS
               THEN led_presskey(c, binding.led_index)
               ELSE IF mapped /\ mode = HID_TRIGGER_RELEASE
               THEN led_presskey(c, -1)
               ELSE c
    IN  hid_run_binding(led, binding.function, mode)

hid_handle_button(m, bindings, button_index, mode) ==
    LET c == Call(m, "hid_handle_button", button_index, mode)
    IN  IF button_index >= BindingCount(bindings) THEN c
        ELSE LET binding == bindings[button_index]
                 mapped == NEO_COUNT > 0 /\ binding.led_index >= 0
                 led == IF mapped /\ mode = HID_TRIGGER_PRESS
                        THEN led_presskey(c, binding.led_index)
                        ELSE IF mapped /\ mode = HID_TRIGGER_RELEASE
                        THEN led_presskey(c, -1)
                        ELSE c
             IN  hid_run_binding(led, binding.function, mode)

\* hid_handle_encoder taking the counter-clockwise binding for a clockwise click
hid_handle_encoder_Swapped(m, bindings, encoder_index, clockwise) ==
    LET c == Call(m, "hid_handle_encoder", encoder_index, IF clockwise THEN 1 ELSE 0)
    IN  IF encoder_index >= BindingCount(bindings) THEN c
        ELSE LET binding == bindings[encoder_index]
                 fn == IF clockwise THEN binding.counter_clockwise ELSE binding.clockwise
             IN  hid_run_binding(c, fn, HID_TRIGGER_CLICK)

hid_handle_encoder(m, bindings, encoder_index, clockwise) ==
    LET c == Call(m, "hid_handle_encoder", encoder_index, IF clockwise THEN 1 ELSE 0)
    IN  IF encoder_index >= BindingCount(bindings) THEN c
        ELSE LET binding == bindings[encoder_index]
                 fn == IF clockwise THEN binding.clockwise ELSE binding.counter_clockwise
             IN  hid_run_binding(c, fn, HID_TRIGGER_CLICK)

\* Keyboard_consumer_try_send(code), which the transport answers with `ok`
TrySend(m, code, ok) == Call(m, "Keyboard_consumer_try_send", code, IF ok THEN 1 ELSE 0)

\* ServiceRelease leaving the waiting phase whatever the transport answers
ServiceRelease_IgnoreResult(m, ok) ==
    [TrySend(m, 0, ok) EXCEPT !.phase = 0]

\* ServiceRelease going back to Idle without sending the release code
ServiceRelease_Skipped(m, ok) == [m EXCEPT !.phase = 0]

\* hid_service with consumer_phase_s == 1: send the release code
ServiceRelease(m, ok) ==
    IF ok
    THEN [TrySend(m, 0, ok) EXCEPT !.phase = 0]
    ELSE TrySend(m, 0, ok)

\* ServiceVolume consuming the pending step whatever the transport answers
ServiceVolume_IgnoreResult(m, ok) ==
    IF m.pending > 0
    THEN [TrySend(m, HID_CONSUMER_VOLUME_INCREMENT, ok) EXCEPT
             !.pending = @ - 1, !.phase = 1]
    ELSE IF m.pending < 0
    THEN [TrySend(m, HID_CONSUMER_VOLUME_DECREMENT, ok) EXCEPT
             !.pending = @ + 1, !.phase = 1]
    ELSE m

\* hid_service with consumer_phase_s == 0: send one pending volume code
ServiceVolume(m, ok) ==
    IF m.pending > 0
    THEN IF ok
         THEN [TrySend(m, HID_CONSUMER_VOLUME_INCREMENT, ok) EXCEPT
                  !.pending = @ - 1, !.phase = 1]
         ELSE TrySend(m, HID_CONSUMER_VOLUME_INCREMENT, ok)
    ELSE IF m.pending < 0
    THEN IF ok
         THEN [TrySend(m, HID_CONSUMER_VOLUME_DECREMENT, ok) EXCEPT
                  !.pending = @ + 1, !.phase = 1]
         ELSE TrySend(m, HID_CONSUMER_VOLUME_DECREMENT, ok)
    ELSE m

\* hid_service sending a pending volume code before the release is out
hid_service_VolumeFirst(m, ok) ==
    IF m.pending # 0 THEN ServiceVolume(m, ok) ELSE ServiceRelease(m, ok)

hid_service(m, ok) ==
    IF m.phase = 1 THEN ServiceRelease(m, ok) ELSE ServiceVolume(m, ok)

----------------------------------------------------------------------------
(* Button engine (buttons.c) *)

\* active_low ? !digitalRead(pin) : digitalRead(pin)
ButtonActive(binding, level) ==
    IF binding.active_low THEN level = 0 ELSE level # 0

\* pinMode(pin, active_low ? INPUT_PULLUP : INPUT); 1 stands for INPUT_PULLUP
ButtonPinMode(m, binding) ==
    Call(m, "pinMode", binding.pin, IF binding.active_low THEN 1 ELSE 0)

\* digitalRead(pin), which returns `level`
DigitalRead(m, pin, level) == Call(m, "digitalRead", pin, level)

\* SetupCount taking every binding, whatever the storage holds
SetupCount_IgnoreCapacity(binding_count, capacity) == binding_count

\* the runtime count buttons_setup computes
SetupCount(binding_count, capacity) ==
    IF binding_count = 0 THEN 0
    ELSE IF capacity = 0 THEN 0
    ELSE IF binding_count > capacity THEN capacity
    ELSE binding_count

\* SetupLoop firing the press whatever the level
RECURSIVE SetupLoop_AlwaysPress(_, _, _, _, _)
SetupLoop_AlwaysPress(r, bindings, levels, count, i) ==
    IF i >= count THEN r
    ELSE LET active == ButtonActive(bindings[i], levels[i])
             fired  == hid_handle_button(r.m, bindings, i, HID_TRIGGER_PRESS)
         IN  SetupLoop_AlwaysPress([m |-> fired, state |-> [r.state EXCEPT ![i] = active]],
                                   bindings, levels, count, i + 1)

\* the loop of buttons_setup from button i on; r = [m, state]
RECURSIVE SetupLoop(_, _, _, _, _)
SetupLoop(r, bindings, levels, count, i) ==
    IF i >= count THEN r
    ELSE LET active == ButtonActive(bindings[i], levels[i])
             read   == DigitalRead(ButtonPinMode(r.m, bindings[i]),
                                   bindings[i].pin, levels[i])
             fired  == IF active
                       THEN hid_handle_button(read, bindings, i, HID_TRIGGER_PRESS)
                       ELSE read
         IN  SetupLoop([m |-> fired, state |-> [r.state EXCEPT ![i] = active]],
                       bindings, levels, count, i + 1)

\* UpdateButton with the store of the new level left out
UpdateButton_NoStore(r, bindings, i, active) ==
    IF r.state[i] # active
    THEN [r EXCEPT
            !.m = hid_handle_button(r.m, bindings, i,
                      IF active THEN HID_TRIGGER_PRESS ELSE HID_TRIGGER_RELEASE)]
    ELSE r

\* UpdateButton reporting every edge as a press
UpdateButton_AlwaysPress(r, bindings, i, active) ==
    IF r.state[i] # active
    THEN [r EXCEPT
            !.m = hid_handle_button(r.m, bindings, i, HID_TRIGGER_PRESS),
            !.state = [@ EXCEPT ![i] = active]]
    ELSE r

\* the edge test of buttons_update for button i: the event, then the store
UpdateButton(r, bindings, i, active) ==
    IF r.state[i] # active
    THEN [r EXCEPT
            !.m = hid_handle_button(r.m, bindings, i,
                      IF active THEN HID_TRIGGER_PRESS ELSE HID_TRIGGER_RELEASE),
            !.state = [@ EXCEPT ![i] = active]]
    ELSE r

\* UpdateChord with = in place of &=: the last member decides
UpdateChord_LastWins(r, binding, active) ==
    IF binding.bootloader_chord_member
    THEN [r EXCEPT !.has_bootloader_chord = TRUE,
                   !.bootloader_chord_candidate = active]
    ELSE r

\* the chord bookkeeping of buttons_update for button i
UpdateChord(r, binding, active) ==
    IF binding.bootloader_chord_member
    THEN [r EXCEPT !.has_bootloader_chord = TRUE,
                   !.bootloader_chord_candidate = @ /\ active]
    ELSE r

\* the loop of buttons_update from button i on;
\* r = [m, state, has_bootloader_chord, bootloader_chord_candidate]
RECURSIVE UpdateLoop(_, _, _, _, _)
UpdateLoop(r, bindings, levels, count, i) ==
    IF i >= count THEN r
    ELSE LET active == ButtonActive(bindings[i], levels[i])
             read   == [r EXCEPT !.m = DigitalRead(@, bindings[i].pin, levels[i])]
         IN  UpdateLoop(UpdateButton(UpdateChord(read, bindings[i], active),
                                     bindings, i, active),
                        bindings, levels, count, i + 1)

\* the loop of configuration_bootloader_requested taking every button,
\* flagged or not
RECURSIVE BootRequestLoop_AnyButton(_, _, _, _)
BootRequestLoop_AnyButton(m, bindings, levels, i) ==
    IF i >= BindingCount(bindings) THEN [m |-> m, requested |-> FALSE]
    ELSE LET read == DigitalRead(ButtonPinMode(m, bindings[i]), bindings[i].pin, levels[i])
         IN  IF ButtonActive(bindings[i], levels[i])
             THEN [m |-> read, requested |-> TRUE]
             ELSE BootRequestLoop_AnyButton(read, bindings, levels, i + 1)

\* the loop of configuration_bootloader_requested from button i on; the
\* result is [m, requested]
RECURSIVE BootRequestLoop(_, _, _, _)
BootRequestLoop(m, bindings, levels, i) ==
    IF i >= BindingCount(bindings) THEN [m |-> m, requested |-> FALSE]
    ELSE IF ~bindings[i].bootloader_on_boot
    THEN BootRequestLoop(m, bindings, levels, i + 1)
    ELSE LET read == DigitalRead(ButtonPinMode(m, bindings[i]), bindings[i].pin, levels[i])
         IN  IF ButtonActive(bindings[i], levels[i])
             THEN [m |-> read, requested |-> TRUE]
             ELSE BootRequestLoop(read, bindings, levels, i + 1)

\* the chord test after the loop
ChordFires(r) == r.has_bootloader_chord /\ r.bootloader_chord_candidate

\* the button events among the calls of one operation, stamped with the tick
RECURSIVE ButtonEvents(_, _)
ButtonEvents(cs, tick) ==
    IF cs = <<>> THEN <<>>
    ELSE IF Head(cs)[1] = "hid_handle_button"
    THEN <<<<Head(cs)[2], Head(cs)[3], tick>>>> \o ButtonEvents(Tail(cs), tick)
    ELSE ButtonEvents(Tail(cs), tick)

\* the thread a handler starts with: no calls made yet
Thread ==
    [calls |-> <<>>, pending |-> consumer_volume_pending_s,
     phase |-> consumer_phase_s, pressed |-> pressed_s]

----------------------------------------------------------------------------
(* Configuration tables (configuration.c and the generator's outputs) *)

KeyStep(keycode, modifiers, hold_ms, gap_ms) ==
    [kind |-> "HID_STEP_KEY", keycode |-> keycode, modifiers |-> modifiers,
     hold_ms |-> hold_ms, gap_ms |-> gap_ms, function_value |-> 1,
     pointer_type |-> "HID_POINTER_MOVE_UP", pointer_value |-> 0,
     functionPointer |-> FN_NULL]

PauseStep(gap_ms) ==
    [KeyStep(0, 0, 0, gap_ms) EXCEPT !.kind = "HID_STEP_PAUSE"]

MouseStep(pointer_type, pointer_value, gap_ms) ==
    [KeyStep(0, 0, 0, gap_ms) EXCEPT !.kind = "HID_STEP_MOUSE",
        !.pointer_type = pointer_type, !.pointer_value = pointer_value]

FunctionStep(fn, function_value, gap_ms) ==
    [KeyStep(0, 0, 0, gap_ms) EXCEPT !.kind = "HID_STEP_FUNCTION",
        !.functionPointer = fn, !.function_value = function_value]

EmptySequence == [steps |-> <<>>, length |-> 0]

\* hid_mouse_macro_t: pointer events, their number, the delay between them
\* and the key held meanwhile
MouseMacro(events, delay, keypress) ==
    [mouse_event_sequence |-> events, length |-> Len(events),
     delay |-> delay, keypress |-> keypress]

EmptyMouseMacro == MouseMacro(<<>>, 0, 0)

\* a one-step sequence
OneStep(step) == [steps |-> (0 :> step), length |-> 1]

SequenceBinding(sequence) ==
    [type |-> "HID_BINDING_SEQUENCE", sequence |-> sequence,
     mouse |-> EmptyMouseMacro, functionPointer |-> FN_NULL]

FunctionBinding(fn) ==
    [type |-> "HID_BINDING_FUNCTION", sequence |-> EmptySequence,
     mouse |-> EmptyMouseMacro, functionPointer |-> fn]

NullBinding ==
    [type |-> "HID_BINDING_NULL", sequence |-> EmptySequence,
     mouse |-> EmptyMouseMacro, functionPointer |-> FN_NULL]

MouseBinding(macro) ==
    [type |-> "HID_BINDING_MOUSE", sequence |-> EmptySequence,
     mouse |-> macro, functionPointer |-> FN_NULL]

ButtonBinding(pin, active_low, led_index, on_boot, chord, function) ==
    [pin |-> pin, active_low |-> active_low, led_index |-> led_index,
     bootloader_on_boot |-> on_boot, bootloader_chord_member |-> chord,
     function |-> function]

\* The button tables the engine is run on: the three-button shape of the
\* sample table (LEDs 0, 1 and none; one-step key sequences 'a', 'b'), the
\* third button bound to a volume-up function step, with every choice of
\* chord members and two choices of pin polarity; and the empty table.
ButtonTables ==
    {<<>>} \cup
    { (0 :> ButtonBinding(11, low[1], 0, FALSE, 0 \in chord,
                          SequenceBinding(OneStep(KeyStep(97, 0, 10, 0))))
       @@ 1 :> ButtonBinding(17, low[2], 1, FALSE, 1 \in chord,
                          SequenceBinding(OneStep(KeyStep(98, 0, 10, 0))))
       @@ 2 :> ButtonBinding(33, low[3], -1, TRUE, 2 \in chord,
                          SequenceBinding(OneStep(FunctionStep(FN_VOLUME_UP, 1, 0))))) :
        chord \in SUBSET (0..2),
        low \in {<<TRUE, TRUE, TRUE>>, <<TRUE, FALSE, TRUE>>} }

\* CONFIGURATION_BUTTON_CAPACITY: as large as the table, one short of it, or none
ButtonCapacities == {0, 2, 3}

\* the sample button table of configuration.c: keys 'a'..'d' on LEDs 0, 1, 2, none
SampleButtonTable ==
    (0 :> ButtonBinding(11, TRUE, 0, FALSE, TRUE,
                        SequenceBinding(OneStep(KeyStep(97, 0, 10, 0))))
     @@ 1 :> ButtonBinding(17, TRUE, 1, FALSE, TRUE,
                        SequenceBinding(OneStep(KeyStep(98, 0, 10, 0))))
     @@ 2 :> ButtonBinding(16, TRUE, 2, FALSE, TRUE,
                        SequenceBinding(OneStep(KeyStep(99, 0, 10, 0))))
     @@ 3 :> ButtonBinding(33, TRUE, -1, TRUE, TRUE,
                        SequenceBinding(OneStep(KeyStep(100, 0, 10, 0)))))

\* the steps key sequences are built from: key steps with each modifier
\* alone, all of them, none, an unused mask bit, with and without a
\* keycode, hold and gap; pauses; pointer steps; function steps
StepPool ==
    { KeyStep(97, 0, 10, 0), KeyStep(97, 1, 10, 0), KeyStep(97, 2, 10, 0),
      KeyStep(97, 4, 10, 0), KeyStep(97, 8, 10, 0), KeyStep(98, 15, 0, 5),
      KeyStep(0, 6, 20, 0), KeyStep(0, 0, 0, 0), KeyStep(99, 17, 10, 3),
      PauseStep(0), PauseStep(7),
      MouseStep("HID_POINTER_MOVE_UP", 5, 0),
      MouseStep("HID_POINTER_SCROLL_DOWN", 200, 2),
      MouseStep("HID_POINTER_LEFT_CLICK", 0, 0),
      FunctionStep(FN_VOLUME_UP, 0, 0), FunctionStep(FN_VOLUME_DOWN, 2, 4),
      FunctionStep(FN_NULL, 1, 6), FunctionStep(FN_MUTE, 1, 0) }

\* the key sequences of up to MaxSteps steps
Sequences ==
    UNION { { [steps |-> st, length |-> n] : st \in [0..(n - 1) -> StepPool] } :
            n \in 0..MaxSteps }

\* the sample encoder table: volume up / volume down
EncoderTable ==
    (0 :> [pin_a |-> 31, pin_b |-> 30,
           clockwise |-> FunctionBinding(FN_VOLUME_UP),
           counter_clockwise |-> FunctionBinding(FN_VOLUME_DOWN)])

CONFIGURATION_ENCODER_CAPACITY == 1

\* A button table for the dispatcher with every kind of binding: a key
\* sequence on LED 0, a sequence holding a function step on LED 2, a key
\* sequence without LED, a function binding on LED 1, a mouse macro
\* without LED.
EventButtonTable ==
    (0 :> ButtonBinding(11, TRUE, 0, FALSE, TRUE,
                        SequenceBinding(OneStep(KeyStep(97, 0, 10, 0))))
     @@ 1 :> ButtonBinding(17, TRUE, 2, FALSE, FALSE,
                        SequenceBinding(OneStep(FunctionStep(FN_VOLUME_UP, 1, 0))))
     @@ 2 :> ButtonBinding(16, TRUE, -1, FALSE, FALSE,
                        SequenceBinding(OneStep(KeyStep(99, 0, 10, 0))))
     @@ 3 :> ButtonBinding(33, TRUE, 1, FALSE, FALSE,
                        FunctionBinding(FN_VOLUME_DOWN))
     @@ 4 :> ButtonBinding(15, TRUE, -1, FALSE, FALSE,
                        MouseBinding(MouseMacro(
                            << [type |-> "HID_POINTER_LEFT_CLICK", value |-> 0] >>,
                            5, 0))))

\* An encoder table for the dispatcher: the sample encoder (volume up and
\* down as function bindings), an encoder bound to key sequences, one of
\* them a function step, and an encoder with a mouse macro and no binding.
EventEncoderTable ==
    (0 :> EncoderTable[0]
     @@ 1 :> [pin_a |-> 14, pin_b |-> 15,
              clockwise |-> SequenceBinding(OneStep(FunctionStep(FN_VOLUME_UP, 1, 0))),
              counter_clockwise |-> SequenceBinding(OneStep(KeyStep(98, 2, 10, 0)))]
     @@ 2 :> [pin_a |-> 16, pin_b |-> 17,
              clockwise |-> MouseBinding(MouseMacro(
                            << [type |-> "HID_POINTER_SCROLL_UP", value |-> 1] >>,
                            0, 0)),
              counter_clockwise |-> NullBinding])

----------------------------------------------------------------------------
(* LED engine (led.c): the shared animations and the render of every LED   *)

LED_PASSIVE_OFF == 0
LED_PASSIVE_RAINBOW == 1
LED_PASSIVE_STATIC == 2
LED_PASSIVE_BREATHING == 3

LED_ACTIVE_OFF == 0
LED_ACTIVE_SOLID == 1
LED_ACTIVE_NOTHING == 2

LED_RAINBOW_DEFAULT_STEP_MS == 20
LED_BREATH_DEFAULT_STEP_MS == 20
NEO_BRIGHT_KEYS == 2
NEO_BLUE == 128
NEO_REVERSED == 0

\* the literals of led_update: steps taken per call at most, for the rainbow
\* and for the breathing; the number of hues
RainbowStepCap == 64
BreathStepCap == 200
HueCount == 192

\* uint8_t and uint16_t values
U8(x) == x % 256
U16(x) == x % 65536

\* A value of the millisecond counter.  millis() is a uint32_t; led.c reads
\* differences of its values through (uint16_t) only, and the counter is
\* kept here modulo 2^30, which like 2^32 is a multiple of 2^16, so that
\* its wrap-around acts on led.c as the wrap-around of the 32-bit counter.
Millis(x) == x % (2 ^ 30)

Rgb(r, g, b) == [r |-> r, g |-> g, b |-> b]

clamp_percent(value) == IF value > 100 THEN 100 ELSE value

brightness_percent(cfg) == clamp_percent(cfg.brightness_percent)

rainbow_step_ms(cfg) ==
    IF cfg.rainbow_step_ms = 0 THEN LED_RAINBOW_DEFAULT_STEP_MS ELSE cfg.rainbow_step_ms

breathing_min_percent(cfg) == clamp_percent(cfg.breathing_min_percent)

breathing_step_ms(cfg) ==
    IF cfg.breathing_step_ms = 0 THEN LED_BREATH_DEFAULT_STEP_MS ELSE cfg.breathing_step_ms

hue_to_rgb(hue) ==
    LET phase == hue \div 64
        step  == U8((hue % 64) * (2 ^ NEO_BRIGHT_KEYS))
        nstep == U8(63 * (2 ^ NEO_BRIGHT_KEYS) - step)
    IN  CASE phase = 0 -> Rgb(nstep, step, 0)
          [] phase = 1 -> Rgb(0, nstep, step)
          [] OTHER     -> Rgb(step, 0, nstep)

scale_component(value, percent) == U8(U16(value * percent) \div 100)

scale_color(color, percent) ==
    Rgb(scale_component(color.r, percent), scale_component(color.g, percent),
        scale_component(color.b, percent))

\* the color write_scaled_color hands to NEO_writeColor
write_scaled_color(cfg, color, percent) ==
    LET effective == U8(U16(percent * brightness_percent(cfg)) \div 100)
    IN  scale_color(color, effective)

\* passive_mode_for(led); the passive_modes table is never null here
passive_mode_for(cfg, led) ==
    IF led >= cfg.count THEN LED_PASSIVE_OFF ELSE cfg.passive_modes[led]

\* the mapping that leaves a reversed strip in its logical order
led_physical_index_Identity(logical) == logical

\* led_physical_index(logical) in a build whose NEO_REVERSED is neo_reversed
led_physical_index(logical) ==
    IF neo_reversed # 0 THEN U8(NEO_COUNT - 1 - logical) ELSE logical

\* led_set_key_state with the key clamped into the LED range
led_set_key_state_Clamped(flags, cfg, key, pressed) ==
    LET led == IF key < 0 THEN 0 ELSE IF key >= cfg.count THEN cfg.count - 1 ELSE key
    IN  [flags EXCEPT ![led] = pressed]

\* led_set_key_state(key, pressed) on the pressed flags
led_set_key_state(flags, cfg, key, pressed) ==
    IF key < 0 \/ key >= cfg.count THEN flags
    ELSE [flags EXCEPT ![key] = pressed]

\* some LED has the passive mode `mode` (the has_rainbow / has_breathing scan)
HasPassive(cfg, mode) ==
    \E i \in 0..(cfg.count - 1) : passive_mode_for(cfg, i) = mode

\* one test of while (remaining >= step_ms && steps < cap) and, if it
\* passes, one run of the body { remaining -= step_ms; steps++; }
CatchUpPass(c, step_ms, cap) ==
    IF c.remaining >= step_ms /\ c.steps < cap
    THEN [remaining |-> c.remaining - step_ms, steps |-> c.steps + 1]
    ELSE c

\* n passes of the loop in a row: the first half of them and, unless the
\* loop has ended by then, the rest
RECURSIVE CatchUpPasses(_, _, _, _)
CatchUpPasses(c, step_ms, cap, n) ==
    IF n = 0 THEN c
    ELSE IF n = 1 THEN CatchUpPass(c, step_ms, cap)
    ELSE LET half == CatchUpPasses(c, step_ms, cap, n \div 2)
         IN  IF half.remaining < step_ms \/ half.steps >= cap THEN half
             ELSE CatchUpPasses(half, step_ms, cap, n - n \div 2)

\* the whole loop: it ends after cap passes at the latest
CatchUp(elapsed, step_ms, cap) ==
    CatchUpPasses([remaining |-> elapsed, steps |-> 0], step_ms, cap, cap)

\* the rainbow phase `steps` steps on: one or two subtractions of 192
RainbowPhase_NoWrap(phase, steps) == U8(phase + steps)

RainbowPhase(phase, steps) ==
    LET sum == U16(phase + steps)
        once == IF sum >= HueCount THEN sum - HueCount ELSE sum
        twice == IF sum >= HueCount /\ once >= HueCount THEN once - HueCount ELSE once
    IN  U8(twice)

\* if (has_rainbow) { ... }: l holds the statics; the steps taken are noted
RainbowAdvance(l, cfg, now) ==
    LET step_ms == rainbow_step_ms(cfg)
        elapsed == U16(now - l.last_rainbow_step_ms_s)
        c == CatchUp(elapsed, step_ms, RainbowStepCap)
    IN  IF HasPassive(cfg, LED_PASSIVE_RAINBOW) /\ elapsed >= step_ms
        THEN [l EXCEPT !.last_rainbow_step_ms_s = Millis(now - c.remaining),
                       !.rainbow_phase_s = RainbowPhase(@, c.steps),
                       !.rainbow_steps = c.steps]
        ELSE l

\* one breathing step that turns round one point before each bound
BreathStep_EarlyTurn(l, min_percent) ==
    LET moved ==
            IF l.breath_descending_s
            THEN IF l.breath_percent_s > min_percent + 1
                 THEN [l EXCEPT !.breath_percent_s = @ - 1]
                 ELSE [l EXCEPT !.breath_descending_s = FALSE]
            ELSE IF l.breath_percent_s < 99
                 THEN [l EXCEPT !.breath_percent_s = @ + 1]
                 ELSE [l EXCEPT !.breath_descending_s = TRUE]
    IN  [moved EXCEPT !.steps = @ - 1,
                      !.trace = Append(@, <<moved.breath_percent_s,
                                            moved.breath_descending_s>>)]

\* the body of while (steps > 0): the percentage and direction after it are
\* appended to the trace of the call
BreathStep(l, min_percent) ==
    LET moved ==
            IF l.breath_descending_s
            THEN IF l.breath_percent_s > min_percent
                 THEN [l EXCEPT !.breath_percent_s = U8(@ - 1)]
                 ELSE [l EXCEPT !.breath_descending_s = FALSE]
            ELSE IF l.breath_percent_s < 100
                 THEN [l EXCEPT !.breath_percent_s = U8(@ + 1)]
                 ELSE [l EXCEPT !.breath_descending_s = TRUE]
    IN  [moved EXCEPT !.steps = @ - 1,
                      !.trace = Append(@, <<moved.breath_percent_s,
                                            moved.breath_descending_s>>)]

\* one test of while (steps > 0) and, if it passes, one run of the body
BreathPass(l, min_percent) ==
    IF l.steps > 0 THEN BreathStep(l, min_percent) ELSE l

\* n passes of the loop in a row: the first half of them and, unless the
\* loop has ended by then, the rest
RECURSIVE BreathPasses(_, _, _)
BreathPasses(l, min_percent, n) ==
    IF n = 0 THEN l
    ELSE IF n = 1 THEN BreathPass(l, min_percent)
    ELSE LET half == BreathPasses(l, min_percent, n \div 2)
         IN  IF half.steps = 0 THEN half
             ELSE BreathPasses(half, min_percent, n - n \div 2)

\* the breathing timing with the last-step timestamp set to now
BreathTiming_ResetToNow(l, cfg, now) ==
    LET c == CatchUp(U16(now - l.last_breath_step_ms_s), breathing_step_ms(cfg),
                     BreathStepCap)
    IN  [l EXCEPT !.last_breath_step_ms_s = now, !.steps = c.steps,
                  !.breath_steps = c.steps]

\* the catch-up of the breathing: the steps to take and the new timestamp
BreathTiming(l, cfg, now) ==
    LET c == CatchUp(U16(now - l.last_breath_step_ms_s), breathing_step_ms(cfg),
                     BreathStepCap)
    IN  [l EXCEPT !.last_breath_step_ms_s = Millis(now - c.remaining),
                  !.steps = c.steps, !.breath_steps = c.steps]

\* if (has_breathing) { ... }
BreathingAdvance(l, cfg, now) ==
    LET elapsed == U16(now - l.last_breath_step_ms_s)
        timed == BreathTiming(l, cfg, now)
    IN  IF HasPassive(cfg, LED_PASSIVE_BREATHING) /\ elapsed >= breathing_step_ms(cfg)
        THEN BreathPasses(timed, breathing_min_percent(cfg), BreathStepCap)
        ELSE l

\* the hue of logical LED `led` in the rolling rainbow
RainbowHue(phase, led) ==
    LET hue_offset == U8((led * 8) % HueCount)
        hue == U16(phase + hue_offset)
    IN  IF hue >= HueCount THEN hue - HueCount ELSE hue

\* switch (passive_mode_for(led)): the color written for the LED
RenderPassive(l, cfg, led) ==
    LET mode == passive_mode_for(cfg, led)
    IN  CASE mode = LED_PASSIVE_OFF -> Rgb(0, 0, 0)
          [] mode = LED_PASSIVE_STATIC ->
                write_scaled_color(cfg, cfg.passive_colors[led], 100)
          [] mode = LED_PASSIVE_BREATHING ->
                write_scaled_color(cfg, cfg.passive_colors[led], l.breath_percent_s)
          [] OTHER ->
                write_scaled_color(cfg, hue_to_rgb(U8(RainbowHue(l.rainbow_phase_s, led))),
                                   100)

\* the render of one LED with a pressed LED always shown in its active color
RenderLed_AlwaysSolid(l, cfg, flags, led) ==
    IF flags[led]
    THEN write_scaled_color(cfg, cfg.active_colors[led], 100)
    ELSE RenderPassive(l, cfg, led)

\* the body of for (led = 0; led < count; ++led): the color written
RenderLed(l, cfg, flags, led) ==
    IF flags[led] /\ cfg.active_modes[led] = LED_ACTIVE_SOLID
    THEN write_scaled_color(cfg, cfg.active_colors[led], 100)
    ELSE IF flags[led] /\ cfg.active_modes[led] = LED_ACTIVE_OFF
    THEN Rgb(0, 0, 0)
    ELSE RenderPassive(l, cfg, led)

\* the pixels after the render loop: every logical LED below count written
\* at its physical index, the others left as they were
Render(l, cfg, flags, pixels) ==
    [p \in DOMAIN pixels |->
        IF \E led \in 0..(cfg.count - 1) : led_physical_index(led) = p
        THEN RenderLed(l, cfg, flags,
                       CHOOSE led \in 0..(cfg.count - 1) : led_physical_index(led) = p)
        ELSE pixels[p]]

\* led_init() at time now
led_init(l, now) ==
    [l EXCEPT !.rainbow_phase_s = 0, !.last_rainbow_step_ms_s = now,
              !.last_breath_step_ms_s = now, !.breath_percent_s = 100,
              !.breath_descending_s = TRUE]

\* led_update() at time now: the animations, then the render
led_update(l, cfg, flags, now) ==
    LET fresh == [l EXCEPT !.rainbow_steps = 0, !.breath_steps = 0, !.trace = <<>>]
        moved == BreathingAdvance(RainbowAdvance(fresh, cfg, now), cfg, now)
    IN  [moved EXCEPT !.pixels = Render(moved, cfg, flags, @)]

\* an LED configuration (led_configuration_t) of NEO_COUNT LEDs
LedConfiguration(passive_modes, passive_colors, active_modes, active_colors, brightness, rainbow_ms, min_percent, breathing_ms) ==
    [passive_modes |-> passive_modes, passive_colors |-> passive_colors,
     active_modes |-> active_modes, active_colors |-> active_colors,
     count |-> NEO_COUNT, brightness_percent |-> brightness,
     rainbow_step_ms |-> rainbow_ms, breathing_min_percent |-> min_percent,
     breathing_step_ms |-> breathing_ms]

\* three values as an array indexed from 0
Array3(a, b, c) == (0 :> a @@ 1 :> b @@ 2 :> c)

\* the configuration the generator writes: rainbow everywhere, white when pressed
GeneratedLedConfiguration ==
    LedConfiguration(
        Array3(LED_PASSIVE_RAINBOW, LED_PASSIVE_RAINBOW, LED_PASSIVE_RAINBOW),
        Array3(Rgb(255, 0, 0), Rgb(255, 255, 0), Rgb(0, 255, 0)),
        Array3(LED_ACTIVE_SOLID, LED_ACTIVE_SOLID, LED_ACTIVE_SOLID),
        Array3(Rgb(255, 255, 255), Rgb(255, 255, 255), Rgb(255, 255, 255)),
        100, 20, 20, 20)

\* The configurations the LED engine is run on: the generated one; one with
\* every passive mode but Off, half brightness, a 1 ms rainbow and a
\* breathing of 3 ms steps down to 97 %; one with out-of-range brightness
\* and minimum and defaulted step times; one breathing in 1 ms steps down to
\* 20 %.
LedConfigurations ==
    { GeneratedLedConfiguration,
      LedConfiguration(
        Array3(LED_PASSIVE_BREATHING, LED_PASSIVE_RAINBOW, LED_PASSIVE_STATIC),
        Array3(Rgb(200, 100, 50), Rgb(0, 0, 255), Rgb(10, 255, 3)),
        Array3(LED_ACTIVE_NOTHING, LED_ACTIVE_OFF, LED_ACTIVE_SOLID),
        Array3(Rgb(255, 255, 255), Rgb(1, 2, 3), Rgb(0, 128, 255)),
        50, 1, 97, 3),
      LedConfiguration(
        Array3(LED_PASSIVE_OFF, LED_PASSIVE_BREATHING, LED_PASSIVE_BREATHING),
        Array3(Rgb(9, 9, 9), Rgb(255, 0, 0), Rgb(0, 60, 0)),
        Array3(LED_ACTIVE_SOLID, LED_ACTIVE_NOTHING, LED_ACTIVE_OFF),
        Array3(Rgb(40, 50, 60), Rgb(7, 7, 7), Rgb(8, 8, 8)),
        255, 0, 200, 0),
      LedConfiguration(
        Array3(LED_PASSIVE_STATIC, LED_PASSIVE_BREATHING, LED_PASSIVE_RAINBOW),
        Array3(Rgb(255, 255, 255), Rgb(100, 150, 200), Rgb(0, 0, 0)),
        Array3(LED_ACTIVE_OFF, LED_ACTIVE_SOLID, LED_ACTIVE_NOTHING),
        Array3(Rgb(0, 0, 0), Rgb(255, 128, 0), Rgb(5, 5, 5)),
        100, 1, 20, 1) }

----------------------------------------------------------------------------
(* State groups and the states the subsystems start in *)

buttonVars == <<button_bindings, button_state_capacity_s, button_state_s,
                button_state_count_s, button_state_before, pins, pins_hist,
                events_hist, bootloader, requested>>
encVars == <<encoder_prev_values_s, encoder_delta_s, encoder_state_count_s,
             encoder_bindings, encoder_state_capacity_s, position_form, enc_pins,
             enc_steps_hist, enc_delta_hist, enc_events_hist, delta_before, prev_before>>
seqVars == <<run_sequence, run_mode>>
cdcVars == <<UpPoint2BusyFlag, UsbWritePointer, ControlLineState, UEP2_T_RES,
             UEP2_T_LEN, main>>
\* what a handler of the keypad core leaves behind
coreVars == <<op, calls, pressed_s, pressed_before, consumer_volume_pending_s,
              consumer_phase_s, pending_before, phase_before, consumer_hist>>
ledVars == <<led_cfg_s, neo_reversed, millis, last_rainbow_step_ms_s,
             last_breath_step_ms_s, breath_percent_s, breath_descending_s,
             rainbow_phase_s, neo, led_hist>>

\* the LED state but for the pixels
ledStatics == <<led_cfg_s, neo_reversed, millis, last_rainbow_step_ms_s,
                last_breath_step_ms_s, breath_percent_s, breath_descending_s,
                rainbow_phase_s, led_hist>>

\* the statics of led.c and the pixels, as a running led operation sees
\* them, with the loop variable of the breathing, the steps the call took
\* and the percentages they went through
LedThread ==
    [last_rainbow_step_ms_s |-> last_rainbow_step_ms_s,
     last_breath_step_ms_s |-> last_breath_step_ms_s,
     breath_percent_s |-> breath_percent_s,
     breath_descending_s |-> breath_descending_s,
     rainbow_phase_s |-> rainbow_phase_s,
     pixels |-> neo, steps |-> 0, rainbow_steps |-> 0, breath_steps |-> 0,
     trace |-> <<>>]

\* led_hist before any LED operation: the clock (milliseconds since power-up,
\* unbounded), the instants of led_init and of the two last-step timestamps,
\* the time since these at the last led_update, the led_update calls so far,
\* whether each of them took every breathing step that had elapsed, and
\* the statics and steps of the last operation
LedHistIdle ==
    [clock |-> 0, t_init |-> 0, t_rainbow |-> 0, t_breath |-> 0,
     e_rainbow |-> 0, e_breath |-> 0, updates |-> 0, regular |-> TRUE,
     before |-> LedThread, rainbow_steps |-> 0, breath_steps |-> 0,
     breath_total |-> 0, trace |-> <<>>]

\* the LED statics as the program starts with them
InitLedWith(configurations, builds) ==
    /\ led_cfg_s \in configurations
    /\ neo_reversed \in builds
    /\ millis = 0
    /\ last_rainbow_step_ms_s = 0
    /\ last_breath_step_ms_s = 0
    /\ breath_percent_s = 100
    /\ breath_descending_s = TRUE
    /\ rainbow_phase_s = 0
    /\ neo = [p \in 0..(NEO_COUNT - 1) |-> Rgb(0, 0, 0)]
    /\ led_hist = LedHistIdle

\* the main loop outside the USBSerial functions
MainIdle ==
    [pc |-> "idle", fn |-> "none", ret |-> <<>>, attempts |-> 0, waitok |-> 0,
     length |-> 0, tmp |-> 0, result |-> 0, appended |-> 0, armed |-> 0,
     timedout |-> FALSE, closed |-> FALSE]

\* the CDC transmit state after USBInit: nothing buffered, nothing armed,
\* the port not opened
InitCdc ==
    /\ UpPoint2BusyFlag = FALSE
    /\ UsbWritePointer = 0
    /\ ControlLineState = 0
    /\ UEP2_T_RES = "NAK"
    /\ UEP2_T_LEN = 0
    /\ main = MainIdle

InitCommon ==
    /\ InitCdc
    /\ op = "init"
    /\ calls = <<>>
    /\ pressed_s = [l \in 0..(NEO_COUNT - 1) |-> FALSE]
    /\ pressed_before = pressed_s

InitHid ==
    /\ consumer_volume_pending_s = 0
    /\ consumer_phase_s = 0
    /\ pending_before = 0
    /\ phase_before = 0
    /\ consumer_hist = [up |-> 0, down |-> 0, sent |-> <<>>]

InitButtonsWith(tables, capacities) ==
    /\ button_bindings \in tables
    /\ button_state_capacity_s \in capacities
    /\ button_state_s = [i \in 0..(button_state_capacity_s - 1) |-> FALSE]
    /\ button_state_count_s = 0
    /\ button_state_before = button_state_s
    /\ pins = <<>>
    /\ pins_hist = <<>>
    /\ events_hist = <<>>
    /\ bootloader = FALSE
    /\ requested = FALSE

InitEncoderWith(tables, capacities) ==
    /\ encoder_bindings \in tables
    /\ encoder_state_capacity_s \in capacities
    /\ encoder_prev_values_s = [e \in 0..(encoder_state_capacity_s - 1) |-> 0]
    /\ encoder_delta_s = [e \in 0..(encoder_state_capacity_s - 1) |-> 0]
    /\ position_form = [m |-> Thread, prev |-> encoder_prev_values_s,
                        position |-> encoder_delta_s, reported |-> encoder_delta_s]
    /\ encoder_state_count_s = 0
    /\ enc_pins = <<>>
    /\ enc_steps_hist = <<>>
    /\ enc_delta_hist = <<>>
    /\ enc_events_hist = <<>>
    /\ delta_before = encoder_delta_s
    /\ prev_before = encoder_prev_values_s

\* the sample encoder table in storage of the configured capacity
InitEncoder == InitEncoderWith({EncoderTable}, {CONFIGURATION_ENCODER_CAPACITY})

InitSeqIdle ==
    /\ run_sequence = EmptySequence
    /\ run_mode = HID_TRIGGER_PRESS

\* the operations of the consumer-control queue when called directly
ConsumerOps == {"hid_service", "hid_consumer_volume_up", "hid_consumer_volume_down"}

\* a call of the trigger `name` with a mode the handlers count
CountedTrigger(c, name) ==
    c[1] = name /\ c[2] \in {HID_TRIGGER_PRESS, HID_TRIGGER_CLICK}

\* the history h with the calls cs[i..] of a queue operation added: a counted
\* up or down trigger, a report the transport accepted
RECURSIVE Account(_, _, _)
Account(h, cs, i) ==
    IF i > Len(cs) THEN h
    ELSE LET c == cs[i]
             next == IF CountedTrigger(c, "hid_consumer_volume_up")
                     THEN [h EXCEPT !.up = @ + 1]
                     ELSE IF CountedTrigger(c, "hid_consumer_volume_down")
                     THEN [h EXCEPT !.down = @ + 1]
                     ELSE IF c[1] = "Keyboard_consumer_try_send" /\ c[3] = 1
                     THEN [h EXCEPT !.sent = Append(@, c[2])]
                     ELSE h
         IN  Account(next, cs, i + 1)

\* what a handler leaves behind: its calls, the pending count, the phase,
\* the LED marks
Commit(name, m) ==
    /\ UNCHANGED cdcVars
    /\ op' = name
    /\ consumer_hist' = IF name \in ConsumerOps THEN Account(consumer_hist, m.calls, 1)
                                                ELSE consumer_hist
    /\ calls' = m.calls
    /\ pending_before' = consumer_volume_pending_s
    /\ phase_before' = consumer_phase_s
    /\ pressed_before' = pressed_s
    /\ consumer_volume_pending_s' = m.pending
    /\ consumer_phase_s' = m.phase
    /\ pressed_s' = m.pressed

----------------------------------------------------------------------------
(* Actions of the button engine *)

\* led_show_bootloader_indicator(): NEO_writeHue(physical, NEO_BLUE,
\* NEO_BRIGHT_KEYS) for every logical LED, then NEO_update()
led_show_bootloader_indicator(m, cfg) ==
    [m EXCEPT !.calls =
        @ \o << <<"led_show_bootloader_indicator", 0, 0>> >>
          \o [i \in 1..cfg.count |-> <<"NEO_writeHue", led_physical_index(i - 1), NEO_BLUE>>]
          \o << <<"NEO_update", 0, 0>> >>]

\* the pixels led_show_bootloader_indicator leaves: NEO_writeHue stores the
\* color hue_to_rgb gives for the hue at NEO_BRIGHT_KEYS
IndicatorPixels(pixels, cfg) ==
    [p \in DOMAIN pixels |->
        IF \E i \in 0..(cfg.count - 1) : led_physical_index(i) = p
        THEN hue_to_rgb(NEO_BLUE)
        ELSE pixels[p]]

\* EnterBootloader jumping before the indicator is shown
EnterBootloader_JumpFirst(m) ==
    led_show_bootloader_indicator(Call(m, "BOOT_now", 0, 0), led_cfg_s)

\* #if NEO_COUNT > 0 led_show_bootloader_indicator(); #endif BOOT_now();
EnterBootloader(m) ==
    Call(IF NEO_COUNT > 0 THEN led_show_bootloader_indicator(m, led_cfg_s) ELSE m,
         "BOOT_now", 0, 0)

\* BOOT_now() coming back to its caller
Halted_Returns == FALSE

\* BOOT_now() jumps into the bootloader and never returns: once it has been
\* called no firmware code runs any more
Halted == bootloader

\* buttons_setup(): called once, before the first tick
ButtonsSetup ==
    /\ pins_hist = <<>>
    /\ \E levels \in [DOMAIN button_bindings -> {0, 1}] :
        LET count == SetupCount(BindingCount(button_bindings), button_state_capacity_s)
            r == SetupLoop([m |-> Thread, state |-> button_state_s],
                           button_bindings, levels, count, 0)
        IN  /\ button_state_count_s' = count
            /\ button_state_before' = button_state_s
            /\ button_state_s' = r.state
            /\ pins' = levels
            /\ pins_hist' = <<levels>>
            /\ events_hist' = ButtonEvents(r.m.calls, 0)
            /\ Commit("buttons_setup", r.m)
    /\ UNCHANGED <<button_bindings, button_state_capacity_s, bootloader, requested>>
    /\ UNCHANGED <<encVars, seqVars, ledVars>>

\* buttons_update(): one tick of the polling loop
ButtonsUpdate ==
    /\ pins_hist # <<>>
    /\ ~Halted
    /\ Len(pins_hist) <= MaxTicks
    /\ IF button_state_count_s = 0
       THEN /\ Commit("buttons_update", Thread)
            /\ button_state_before' = button_state_s
            /\ UNCHANGED <<button_state_s, pins, pins_hist, events_hist, bootloader, neo>>
       ELSE \E levels \in [DOMAIN button_bindings -> {0, 1}] :
            LET r == UpdateLoop([m |-> Thread, state |-> button_state_s,
                                 has_bootloader_chord |-> FALSE,
                                 bootloader_chord_candidate |-> TRUE],
                                button_bindings, levels, button_state_count_s, 0)
                m == IF ChordFires(r) THEN EnterBootloader(r.m) ELSE r.m
            IN  /\ button_state_before' = button_state_s
                /\ button_state_s' = r.state
                /\ pins' = levels
                /\ pins_hist' = Append(pins_hist, levels)
                /\ events_hist' = events_hist \o ButtonEvents(r.m.calls, Len(pins_hist))
                /\ bootloader' = ChordFires(r)
                /\ neo' = IF ChordFires(r) /\ NEO_COUNT > 0
                          THEN IndicatorPixels(neo, led_cfg_s)
                          ELSE neo
                /\ Commit("buttons_update", m)
    /\ UNCHANGED <<button_bindings, button_state_capacity_s, button_state_count_s,
                   requested>>
    /\ UNCHANGED <<encVars, seqVars, ledStatics>>

InitButtons ==
    /\ InitCommon
    /\ InitHid
    /\ InitButtonsWith(ButtonTables, ButtonCapacities)
    /\ InitEncoder
    /\ InitSeqIdle
    /\ InitLedWith({GeneratedLedConfiguration}, {NEO_REVERSED})

NextButtons == ButtonsSetup \/ ButtonsUpdate

SpecButtons == InitButtons /\ [][NextButtons]_vars

----------------------------------------------------------------------------
(* Properties of the button engine.  A button is a binding the engine      *)
(* tracks: an index below the runtime count.                               *)

Tracked == 0..(button_state_count_s - 1)

\* the level `level` read on button i's pin is the active one
IsActiveLevel(i, level) == (level = 1) # button_bindings[i].active_low

\* button i was sampled active by the k-th sampling call (1 = setup)
ActiveAt(i, k) == IsActiveLevel(i, pins_hist[k][i])

\* the hid_handle_button calls for button i among the calls of the operation
CallsFor(i) == SelectSeq(calls, LAMBDA c : c[1] = "hid_handle_button" /\ c[2] = i)

\* the events of button i since setup, and those before tick `t`
EventsOf(i) == SelectSeq(events_hist, LAMBDA e : e[1] = i)
EventsBefore(i, t) == SelectSeq(events_hist, LAMBDA e : e[1] = i /\ e[3] < t)

\* the number of sampling calls, from setup on, that all saw button i active
RECURSIVE HeldFromSetup(_, _)
HeldFromSetup(i, k) ==
    IF k > Len(pins_hist) \/ ~ActiveAt(i, k) THEN k - 1
    ELSE HeldFromSetup(i, k + 1)

\* C1: in buttons_update, every tracked button whose sampled level differs
\* from its stored state gets exactly one event, Press if the sample is
\* active and Release if not, and its stored state becomes the sampled
\* level; a button whose sample equals its stored state gets no event and
\* keeps its stored state.
C1_UpdateFiresOnEdges ==
    (op = "buttons_update" /\ button_state_count_s > 0) =>
        \A i \in Tracked :
            LET active == IsActiveLevel(i, pins[i])
            IN  IF button_state_before[i] # active
                THEN /\ CallsFor(i) = << <<"hid_handle_button", i,
                            IF active THEN HID_TRIGGER_PRESS ELSE HID_TRIGGER_RELEASE>> >>
                     /\ button_state_s[i] = active
                ELSE /\ CallsFor(i) = <<>>
                     /\ button_state_s[i] = button_state_before[i]

\* one tick in which one button is pressed, one released and one left alone
C1_Witness ==
    /\ op = "buttons_update"
    /\ \E i, j, k \in Tracked :
        /\ CallsFor(i) = << <<"hid_handle_button", i, HID_TRIGGER_PRESS>> >>
        /\ CallsFor(j) = << <<"hid_handle_button", j, HID_TRIGGER_RELEASE>> >>
        /\ CallsFor(k) = <<>>
        /\ button_state_s[i] /\ ~button_state_s[j]

\* C2: buttons_setup fires exactly one Press for every tracked button that
\* is active at setup and nothing for one that is inactive; a button active
\* at setup gets no further event for as long as every later tick samples it
\* active.
C2_SetupPress ==
    op # "init" =>
        \A i \in Tracked :
            /\ EventsBefore(i, 1) =
                  IF ActiveAt(i, 1) THEN << <<i, HID_TRIGGER_PRESS, 0>> >> ELSE <<>>
            /\ ActiveAt(i, 1) =>
                  EventsBefore(i, HeldFromSetup(i, 1)) = << <<i, HID_TRIGGER_PRESS, 0>> >>

\* a button held from setup through two ticks next to one inactive at setup
C2_Witness ==
    /\ op = "buttons_update"
    /\ Len(pins_hist) >= 3
    /\ \E i, j \in Tracked :
        /\ HeldFromSetup(i, 1) = Len(pins_hist)
        /\ EventsOf(i) = << <<i, HID_TRIGGER_PRESS, 0>> >>
        /\ ~ActiveAt(j, 1)
        /\ EventsBefore(j, 1) = <<>>

\* C3: the events of every button alternate Press, Release, Press, ...
\* beginning with Press; a tracked button inactive at setup, active in the
\* first tick and inactive in the second has had exactly one Press and then
\* one Release by then.
C3_EventsAlternate ==
    /\ \A i \in DOMAIN button_bindings :
          \A n \in 1..Len(EventsOf(i)) :
              EventsOf(i)[n][2] =
                  IF n % 2 = 1 THEN HID_TRIGGER_PRESS ELSE HID_TRIGGER_RELEASE
    /\ \A i \in Tracked :
          (Len(pins_hist) >= 3 /\ ~ActiveAt(i, 1) /\ ActiveAt(i, 2) /\ ~ActiveAt(i, 3))
              => EventsBefore(i, 3) = << <<i, HID_TRIGGER_PRESS, 1>>,
                                         <<i, HID_TRIGGER_RELEASE, 2>> >>

\* inactive at setup, then active, then inactive: Press then Release
C3_Witness ==
    /\ Len(pins_hist) = 3
    /\ \E i \in Tracked :
        /\ ~ActiveAt(i, 1) /\ ActiveAt(i, 2) /\ ~ActiveAt(i, 3)
        /\ EventsOf(i) = << <<i, HID_TRIGGER_PRESS, 1>>, <<i, HID_TRIGGER_RELEASE, 2>> >>

\* the tracked buttons flagged bootloader_chord_member
ChordMembers == {i \in Tracked : button_bindings[i].bootloader_chord_member}

\* C4: a tick enters the bootloader exactly when there is a chord member
\* and every chord member is sampled active in that tick; setup never
\* enters it.
C4_ChordIsAnd ==
    /\ op = "buttons_update" =>
          (bootloader <=> /\ ChordMembers # {}
                          /\ \A i \in ChordMembers : IsActiveLevel(i, pins[i]))
    /\ bootloader <=> (\E n \in 1..Len(calls) : calls[n][1] = "BOOT_now")
    /\ bootloader => op = "buttons_update"

\* chord {A, B}: a tick with A alone, or B alone, did not enter; the next
\* tick, with both, does
C4_Witness ==
    /\ bootloader
    /\ Cardinality(ChordMembers) = 2
    /\ Len(pins_hist) >= 3
    /\ \E a \in ChordMembers :
          /\ ActiveAt(a, Len(pins_hist) - 1)
          /\ \A b \in ChordMembers \ {a} : ~ActiveAt(b, Len(pins_hist) - 1)
    /\ \A i \in ChordMembers : ActiveAt(i, Len(pins_hist))

----------------------------------------------------------------------------
(* Encoder engine (encoder.c, delta-counter form) *)

\* rotary_table_s counting the both-bits transitions 00->11 and 11->00 as steps
rotary_table_s_DoubleStep ==
    << 0, -1,  1,  1,
       1,  0,  0, -1,
      -1,  0,  0,  1,
      -1,  1, -1,  0 >>

\* the table of quadrature transitions, rotary_table_s[prev<<2 | current]
\* at position (prev<<2 | current) + 1
rotary_table_s ==
    << 0, -1,  1,  0,
       1,  0,  0, -1,
      -1,  0,  0,  1,
       0,  1, -1,  0 >>

\* (int8_t)x
WrapInt8(x) == ((x + 128) % 256) - 128

\* (valA << 1) | valB
QuadratureValue(valA, valB) == valA * 2 + valB

\* (prev << 2) | new_val
Combined(prev, new_val) == prev * 4 + new_val

\* encoder_sample(index); e = [prev, delta, step], step the table value added
encoder_sample(e, index, levels) ==
    LET new_val  == QuadratureValue(levels[index][1], levels[index][2])
        combined == Combined(e.prev[index], new_val)
    IN  [m     |-> DigitalRead(DigitalRead(e.m, encoder_bindings[index].pin_a,
                                               levels[index][1]),
                                   encoder_bindings[index].pin_b, levels[index][2]),
         prev  |-> [e.prev EXCEPT ![index] = new_val],
         delta |-> [e.delta EXCEPT ![index] = WrapInt8(@ + rotary_table_s[combined + 1])],
         step  |-> [e.step EXCEPT ![index] = rotary_table_s[combined + 1]]]

\* the first loop of encoder_update, from encoder `index` on
RECURSIVE SampleLoop(_, _, _, _)
SampleLoop(e, levels, count, index) ==
    IF index >= count THEN e
    ELSE SampleLoop(encoder_sample(e, index, levels), levels, count, index + 1)

\* EmitCounterClockwise reporting nothing and keeping the whole delta
EmitCounterClockwise_Skip(m, index, delta) == [m |-> m, delta |-> delta]

\* while (delta <= -4) { delta += 4; hid_handle_encoder(index, false); }
RECURSIVE EmitCounterClockwise(_, _, _)
EmitCounterClockwise(m, index, delta) ==
    IF delta <= -4
    THEN EmitCounterClockwise(hid_handle_encoder(m, encoder_bindings, index, FALSE),
                              index, delta + 4)
    ELSE [m |-> m, delta |-> delta]

\* EmitClockwise with the threshold one too high
RECURSIVE EmitClockwise_Late(_, _, _)
EmitClockwise_Late(m, index, delta) ==
    IF delta > 4
    THEN EmitClockwise_Late(hid_handle_encoder(m, encoder_bindings, index, TRUE),
                            index, delta - 4)
    ELSE [m |-> m, delta |-> delta]

\* EmitClockwise reporting every click twice
EmitClockwise_Twice(m, index, delta) ==
    IF delta >= 4
    THEN [m |-> hid_handle_encoder(hid_handle_encoder(m, encoder_bindings, index, TRUE),
                                   encoder_bindings, index, TRUE),
          delta |-> delta - 4]
    ELSE [m |-> m, delta |-> delta]

\* while (delta >= 4) { delta -= 4; hid_handle_encoder(index, true); }
RECURSIVE EmitClockwise(_, _, _)
EmitClockwise(m, index, delta) ==
    IF delta >= 4
    THEN EmitClockwise(hid_handle_encoder(m, encoder_bindings, index, TRUE),
                       index, delta - 4)
    ELSE [m |-> m, delta |-> delta]

\* the second loop of encoder_update, from encoder `index` on; r = [m, delta]
RECURSIVE EmitLoop(_, _, _)
EmitLoop(r, count, index) ==
    IF index >= count THEN r
    ELSE LET cw  == EmitClockwise(r.m, index, r.delta[index])
             ccw == EmitCounterClockwise(cw.m, index, cw.delta)
         IN  EmitLoop([m |-> ccw.m, delta |-> [r.delta EXCEPT ![index] = ccw.delta]],
                      count, index + 1)

\* the calls of the loop of encoder_setup, from encoder i on
RECURSIVE EncoderSetupLoop(_, _, _, _)
EncoderSetupLoop(m, levels, count, i) ==
    IF i >= count THEN m
    ELSE LET a == encoder_bindings[i].pin_a
             b == encoder_bindings[i].pin_b
             modes == Call(Call(m, "pinMode", a, 1), "pinMode", b, 1)
         IN  EncoderSetupLoop(DigitalRead(DigitalRead(modes, a, levels[i][1]),
                                          b, levels[i][2]),
                              levels, count, i + 1)

\* encoder_sample of the position form; p = [m, prev, position, reported]
encoder_sample_position(p, index, levels) ==
    LET new_val  == QuadratureValue(levels[index][1], levels[index][2])
        combined == Combined(p.prev[index], new_val)
    IN  [p EXCEPT
            !.m = DigitalRead(DigitalRead(@, encoder_bindings[index].pin_a,
                                          levels[index][1]),
                              encoder_bindings[index].pin_b, levels[index][2]),
            !.prev = [@ EXCEPT ![index] = new_val],
            !.position = [@ EXCEPT ![index] = @ + rotary_table_s[combined + 1]]]

\* the first loop of the position form's encoder_update
RECURSIVE PositionSampleLoop(_, _, _, _)
PositionSampleLoop(p, levels, count, index) ==
    IF index >= count THEN p
    ELSE PositionSampleLoop(encoder_sample_position(p, index, levels),
                            levels, count, index + 1)

\* while (position - reported >= 4) { reported += 4; hid_handle_encoder(index, true); }
RECURSIVE EmitPositionClockwise(_, _)
EmitPositionClockwise(p, index) ==
    IF p.position[index] - p.reported[index] >= 4
    THEN EmitPositionClockwise(
             [p EXCEPT !.reported = [@ EXCEPT ![index] = @ + 4],
                       !.m = hid_handle_encoder(@, encoder_bindings, index, TRUE)],
             index)
    ELSE p

\* EmitPositionCounterClockwise reporting a click one step early
RECURSIVE EmitPositionCounterClockwise_Early(_, _)
EmitPositionCounterClockwise_Early(p, index) ==
    IF p.position[index] - p.reported[index] <= -3
    THEN EmitPositionCounterClockwise_Early(
             [p EXCEPT !.reported = [@ EXCEPT ![index] = @ - 4],
                       !.m = hid_handle_encoder(@, encoder_bindings, index, FALSE)],
             index)
    ELSE p

\* while (position - reported <= -4) { reported -= 4; hid_handle_encoder(index, false); }
RECURSIVE EmitPositionCounterClockwise(_, _)
EmitPositionCounterClockwise(p, index) ==
    IF p.position[index] - p.reported[index] <= -4
    THEN EmitPositionCounterClockwise(
             [p EXCEPT !.reported = [@ EXCEPT ![index] = @ - 4],
                       !.m = hid_handle_encoder(@, encoder_bindings, index, FALSE)],
             index)
    ELSE p

\* the second loop of the position form's encoder_update
RECURSIVE PositionEmitLoop(_, _, _)
PositionEmitLoop(p, count, index) ==
    IF index >= count THEN p
    ELSE PositionEmitLoop(
             EmitPositionCounterClockwise(EmitPositionClockwise(p, index), index),
             count, index + 1)

\* the runtime count encoder_setup computes
EncoderSetupCount(binding_count, capacity) ==
    IF binding_count = 0 THEN 0
    ELSE IF capacity = 0 THEN 0
    ELSE IF binding_count > capacity THEN capacity
    ELSE binding_count

\* the encoder events among the calls of one operation, stamped with the tick
RECURSIVE EncoderEvents(_, _)
EncoderEvents(cs, tick) ==
    IF cs = <<>> THEN <<>>
    ELSE IF Head(cs)[1] = "hid_handle_encoder"
    THEN <<<<Head(cs)[2], Head(cs)[3], tick>>>> \o EncoderEvents(Tail(cs), tick)
    ELSE EncoderEvents(Tail(cs), tick)

\* the pin levels one call can read: <<pin_a, pin_b>> per encoder
EncoderLevels == [DOMAIN encoder_bindings -> {0, 1} \X {0, 1}]

\* encoder_setup(): called once, before the first tick
EncoderSetup ==
    /\ enc_delta_hist = <<>>
    /\ ~Halted
    /\ \E levels \in EncoderLevels :
        LET count == EncoderSetupCount(BindingCount(encoder_bindings),
                                       encoder_state_capacity_s)
        IN  /\ encoder_state_count_s' = count
            /\ Commit("encoder_setup", EncoderSetupLoop(Thread, levels, count, 0))
            /\ encoder_prev_values_s' =
                  [i \in DOMAIN encoder_prev_values_s |->
                      IF i < count
                      THEN QuadratureValue(levels[i][1], levels[i][2])
                      ELSE encoder_prev_values_s[i]]
            /\ encoder_delta_s' =
                  [i \in DOMAIN encoder_delta_s |->
                      IF i < count THEN 0 ELSE encoder_delta_s[i]]
            /\ position_form' =
                  [m |-> EncoderSetupLoop(Thread, levels, count, 0),
                   prev |-> [i \in DOMAIN position_form.prev |->
                               IF i < count
                               THEN QuadratureValue(levels[i][1], levels[i][2])
                               ELSE position_form.prev[i]],
                   position |-> [i \in DOMAIN position_form.position |->
                                   IF i < count THEN 0 ELSE position_form.position[i]],
                   reported |-> [i \in DOMAIN position_form.reported |->
                                   IF i < count THEN 0 ELSE position_form.reported[i]]]
            /\ enc_pins' = levels
            /\ enc_steps_hist' = <<>>
            /\ enc_delta_hist' = <<encoder_delta_s'>>
            /\ enc_events_hist' = <<>>
    /\ delta_before' = encoder_delta_s
    /\ prev_before' = encoder_prev_values_s
    /\ UNCHANGED <<encoder_bindings, encoder_state_capacity_s>>
    /\ UNCHANGED <<buttonVars, seqVars, ledVars>>

\* encoder_update(): one tick of the polling loop
EncoderUpdate ==
    /\ enc_delta_hist # <<>>
    /\ ~Halted
    /\ Len(enc_steps_hist) < MaxEncTicks
    /\ IF encoder_state_count_s = 0
       THEN /\ Commit("encoder_update", Thread)
            /\ position_form' = [position_form EXCEPT !.m = Thread]
            /\ UNCHANGED <<encoder_prev_values_s, encoder_delta_s, enc_pins,
                           enc_steps_hist, enc_delta_hist, enc_events_hist>>
       ELSE \E levels \in EncoderLevels :
            LET e == SampleLoop([m |-> Thread, prev |-> encoder_prev_values_s,
                                 delta |-> encoder_delta_s,
                                 step |-> [i \in DOMAIN encoder_delta_s |-> 0]],
                                levels, encoder_state_count_s, 0)
                r == EmitLoop([m |-> e.m, delta |-> e.delta],
                              encoder_state_count_s, 0)
            IN  /\ encoder_prev_values_s' = e.prev
                /\ encoder_delta_s' = r.delta
                /\ position_form' =
                      PositionEmitLoop(
                          PositionSampleLoop([position_form EXCEPT !.m = Thread],
                                             levels, encoder_state_count_s, 0),
                          encoder_state_count_s, 0)
                /\ enc_pins' = levels
                /\ enc_steps_hist' = Append(enc_steps_hist, e.step)
                /\ enc_delta_hist' = Append(enc_delta_hist, r.delta)
                /\ enc_events_hist' = enc_events_hist
                        \o EncoderEvents(r.m.calls, Len(enc_steps_hist) + 1)
                /\ Commit("encoder_update", r.m)
    /\ delta_before' = encoder_delta_s
    /\ prev_before' = encoder_prev_values_s
    /\ UNCHANGED <<encoder_state_count_s, encoder_bindings, encoder_state_capacity_s>>
    /\ UNCHANGED <<buttonVars, seqVars, ledVars>>

InitEncoders ==
    /\ InitCommon
    /\ InitHid
    /\ InitButtonsWith({<<>>}, {0})
    /\ InitEncoder
    /\ InitSeqIdle
    /\ InitLedWith({GeneratedLedConfiguration}, {NEO_REVERSED})

NextEncoders == EncoderSetup \/ EncoderUpdate

SpecEncoders == InitEncoders /\ [][NextEncoders]_vars

----------------------------------------------------------------------------
(* Properties of the encoder engine *)

TrackedEncoders == 0..(encoder_state_count_s - 1)

\* how many of the two bits of the quadrature states p and c differ
BitsChanged(p, c) ==
    (IF p \div 2 # c \div 2 THEN 1 ELSE 0) + (IF p % 2 # c % 2 THEN 1 ELSE 0)

\* C5: for all 16 (previous, current) pairs the table entry at
\* (previous<<2 | current) is +1 or -1 exactly when the two states differ in
\* exactly one bit and 0 when they are equal or differ in both bits; and the
\* value a tick adds to an encoder's accumulator is the entry for the state
\* stored before the tick and the state read from the pins.
C5_TableSingleBit ==
    /\ \A previous, current \in 0..3 :
          LET entry == rotary_table_s[(previous * 4 + current) + 1]
          IN  IF BitsChanged(previous, current) = 1
              THEN entry \in {1, -1}
              ELSE entry = 0
    /\ (op = "encoder_update" /\ encoder_state_count_s > 0) =>
          \A index \in TrackedEncoders :
              LET step == enc_steps_hist[Len(enc_steps_hist)][index]
                  read == 2 * enc_pins[index][1] + enc_pins[index][2]
              IN  /\ encoder_prev_values_s[index] = read
                  /\ (step \in {1, -1}) <=> (BitsChanged(prev_before[index], read) = 1)
                  /\ step \in {-1, 0, 1}

\* a tick that reads both bits changed adds nothing
C5_Witness ==
    /\ op = "encoder_update"
    /\ \E index \in TrackedEncoders :
        /\ BitsChanged(prev_before[index], encoder_prev_values_s[index]) = 2
        /\ enc_steps_hist[Len(enc_steps_hist)][index] = 0
        /\ encoder_delta_s[index] = delta_before[index]

\* the events of encoder `index` in ticks first..last
EncoderEventsIn(index, first, last) ==
    SelectSeq(enc_events_hist,
              LAMBDA ev : ev[1] = index /\ ev[3] >= first /\ ev[3] <= last)

\* the hid_handle_encoder calls for encoder `index` among the calls of the operation
EncoderCallsFor(index) ==
    SelectSeq(calls, LAMBDA c : c[1] = "hid_handle_encoder" /\ c[2] = index)

\* C6: a tick whose sample brings an encoder's accumulated delta to +4 fires
\* exactly one clockwise event and leaves the accumulator 4 lower, a tick
\* that brings it to -4 fires exactly one counter-clockwise event and leaves
\* it 4 higher, any other tick fires nothing; and 8 consecutive clockwise
\* edges from a zero accumulator fire exactly two clockwise events, no
\* counter-clockwise event, and leave the accumulator at 0.
C6_ClickEveryFour ==
    /\ (op = "encoder_update" /\ encoder_state_count_s > 0) =>
          \A index \in TrackedEncoders :
              LET reached == delta_before[index] + enc_steps_hist[Len(enc_steps_hist)][index]
              IN  /\ reached \in -4..4
                  /\ reached = 4 =>
                        /\ EncoderCallsFor(index) = << <<"hid_handle_encoder", index, 1>> >>
                        /\ encoder_delta_s[index] = reached - 4
                  /\ reached = -4 =>
                        /\ EncoderCallsFor(index) = << <<"hid_handle_encoder", index, 0>> >>
                        /\ encoder_delta_s[index] = reached + 4
                  /\ reached \in -3..3 =>
                        /\ EncoderCallsFor(index) = <<>>
                        /\ encoder_delta_s[index] = reached
    /\ \A index \in TrackedEncoders :
          \A t \in 0..(Len(enc_steps_hist) - 8) :
              (/\ enc_delta_hist[t + 1][index] = 0
               /\ \A k \in (t + 1)..(t + 8) : enc_steps_hist[k][index] = 1)
              => /\ EncoderEventsIn(index, t + 1, t + 8) =
                        << <<index, 1, t + 4>>, <<index, 1, t + 8>> >>
                 /\ enc_delta_hist[t + 9][index] = 0

\* eight clockwise edges in a row from setup, two clockwise events
C6_Witness ==
    /\ Len(enc_steps_hist) = 8
    /\ \A k \in 1..8 : enc_steps_hist[k][0] = 1
    /\ enc_events_hist = << <<0, 1, 4>>, <<0, 1, 8>> >>
    /\ encoder_delta_s[0] = 0

----------------------------------------------------------------------------
(* Consumer-control queue (hid.c): the volume triggers and hid_service *)

\* hid_service(): one call from the polling loop; the transport accepts the
\* report or not
HidService ==
    /\ \E ok \in BOOLEAN : Commit("hid_service", hid_service(Thread, ok))
    /\ UNCHANGED <<buttonVars, encVars, seqVars, ledVars>>

\* hid_consumer_volume_up(mode); the call is recorded with its mode
VolumeUp ==
    /\ consumer_hist.up + consumer_hist.down < MaxPending
    /\ \E mode \in TriggerModes :
          Commit("hid_consumer_volume_up",
                 hid_consumer_volume_up(Call(Thread, "hid_consumer_volume_up", mode, 0),
                                        mode))
    /\ UNCHANGED <<buttonVars, encVars, seqVars, ledVars>>

\* hid_consumer_volume_down(mode); the call is recorded with its mode
VolumeDown ==
    /\ consumer_hist.up + consumer_hist.down < MaxPending
    /\ \E mode \in TriggerModes :
          Commit("hid_consumer_volume_down",
                 hid_consumer_volume_down(Call(Thread, "hid_consumer_volume_down", mode, 0),
                                          mode))
    /\ UNCHANGED <<buttonVars, encVars, seqVars, ledVars>>

InitHidQueue ==
    /\ InitCommon
    /\ InitHid
    /\ InitButtonsWith({<<>>}, {0})
    /\ InitEncoder
    /\ InitSeqIdle
    /\ InitLedWith({GeneratedLedConfiguration}, {NEO_REVERSED})

NextHid == HidService \/ VolumeUp \/ VolumeDown

SpecHid == InitHidQueue /\ [][NextHid]_vars

\* the Keyboard_consumer_try_send attempts among the calls of the operation
Attempts == SelectSeq(calls, LAMBDA c : c[1] = "Keyboard_consumer_try_send")

\* C7: hid_service is the two-state machine.  Idle with pending > 0: it
\* attempts VOLUME_INCREMENT (pending < 0: VOLUME_DECREMENT) and, only if the
\* send succeeds, moves pending one unit toward zero and enters
\* WaitingRelease.  WaitingRelease: it attempts only the release code 0 and,
\* only if that succeeds, returns to Idle.  Idle with pending = 0: it sends
\* nothing.
C7_TwoStateMachine ==
    op = "hid_service" =>
        /\ calls = Attempts
        /\ IF phase_before = 1
           THEN /\ Len(calls) = 1
                /\ calls[1][2] = 0
                /\ consumer_phase_s = (IF calls[1][3] = 1 THEN 0 ELSE 1)
                /\ consumer_volume_pending_s = pending_before
           ELSE IF pending_before = 0
           THEN /\ calls = <<>>
                /\ consumer_phase_s = 0
                /\ consumer_volume_pending_s = pending_before
           ELSE /\ Len(calls) = 1
                /\ calls[1][2] = (IF pending_before > 0
                                  THEN HID_CONSUMER_VOLUME_INCREMENT
                                  ELSE HID_CONSUMER_VOLUME_DECREMENT)
                /\ IF calls[1][3] = 1
                   THEN /\ consumer_phase_s = 1
                        /\ consumer_volume_pending_s =
                              (IF pending_before > 0 THEN pending_before - 1
                                                     ELSE pending_before + 1)
                   ELSE /\ consumer_phase_s = 0
                        /\ consumer_volume_pending_s = pending_before

\* a decrement accepted from Idle with two steps down pending
C7_Witness ==
    /\ op = "hid_service"
    /\ phase_before = 0
    /\ pending_before = -2
    /\ calls = << <<"Keyboard_consumer_try_send", HID_CONSUMER_VOLUME_DECREMENT, 1>> >>
    /\ consumer_phase_s = 1
    /\ consumer_volume_pending_s = -1

\* the last hid_service call made an attempt and the transport refused it
AttemptFailed == op = "hid_service" /\ Len(Attempts) = 1 /\ Attempts[1][3] = 0

\* C8: every hid_service call makes at most one send attempt and moves the
\* pending count by at most one; a failed attempt leaves the pending count
\* and the phase unchanged, and the hid_service call that follows it
\* attempts the same code again.
C8_OneAttemptNoDrop ==
    /\ [](op = "hid_service" =>
            /\ Len(Attempts) <= 1
            /\ consumer_volume_pending_s - pending_before \in {-1, 0, 1}
            /\ AttemptFailed =>
                  /\ consumer_volume_pending_s = pending_before
                  /\ consumer_phase_s = phase_before)
    /\ [][(AttemptFailed /\ op' = "hid_service") =>
            /\ Len(calls') = 1
            /\ calls'[1][1] = "Keyboard_consumer_try_send"
            /\ calls'[1][2] = calls[1][2]]_vars

\* a refused release: still waiting, nothing consumed
C8_Witness ==
    /\ AttemptFailed
    /\ calls[1][2] = 0
    /\ phase_before = 1
    /\ consumer_phase_s = 1
    /\ consumer_volume_pending_s = pending_before
    /\ pending_before # 0

\* the last operation was the trigger `name`, called with Press or Click
Triggered(name) ==
    /\ op = name
    /\ calls[1][2] \in {HID_TRIGGER_PRESS, HID_TRIGGER_CLICK}

\* what the trigger `name` must have done: `step` added to the pending count
\* unless the mode was Release, no call made but the trigger itself, the
\* phase untouched
TriggerAdds(name, step) ==
    op = name =>
        /\ calls = << <<name, calls[1][2], 0>> >>
        /\ consumer_volume_pending_s =
              pending_before + (IF calls[1][2] = HID_TRIGGER_RELEASE THEN 0 ELSE step)
        /\ consumer_phase_s = phase_before

\* C15: the pending count is a signed accumulator.  hid_consumer_volume_up
\* with Press or Click adds exactly 1, hid_consumer_volume_down with Press or
\* Click subtracts exactly 1, either with Release leaves it as it was, and
\* neither makes a transport call or changes the phase.  An up trigger
\* followed directly by a down trigger puts the count back where it was, so
\* from an empty idle queue the hid_service call that comes next has nothing
\* to send.
C15_SignedAccumulator ==
    /\ [](/\ TriggerAdds("hid_consumer_volume_up", 1)
          /\ TriggerAdds("hid_consumer_volume_down", -1))
    /\ [][(Triggered("hid_consumer_volume_up") /\ Triggered("hid_consumer_volume_down")') =>
            /\ consumer_volume_pending_s' = pending_before
            /\ (pending_before = 0 /\ consumer_phase_s' = 0) =>
                  \A ok \in BOOLEAN : hid_service(Thread', ok).calls = <<>>]_vars

\* a down click right after an up: the count is back at 0, the queue idle
C15_Witness ==
    /\ op = "hid_consumer_volume_down"
    /\ calls = << <<"hid_consumer_volume_down", HID_TRIGGER_CLICK, 0>> >>
    /\ pending_before = 1
    /\ consumer_volume_pending_s = 0
    /\ consumer_phase_s = 0

----------------------------------------------------------------------------
(* The dispatcher on its own: one key sequence, or one button event on the *)
(* sample table                                                            *)

\* hid_run_key_sequence(sequence, mode)
RunKeySequence ==
    /\ op = "init"
    /\ \E sequence \in Sequences, mode \in TriggerModes :
        /\ run_sequence' = sequence
        /\ run_mode' = mode
        /\ Commit("hid_run_key_sequence", hid_run_key_sequence(Thread, sequence, mode))
    /\ UNCHANGED <<buttonVars, encVars, ledVars>>

\* hid_handle_button(button_index, mode)
HandleButton ==
    /\ op = "init"
    /\ \E button_index \in 0..BindingCount(button_bindings), mode \in TriggerModes :
          Commit("hid_handle_button",
                 hid_handle_button(Thread, button_bindings, button_index, mode))
    /\ UNCHANGED <<buttonVars, encVars, seqVars, ledVars>>

InitDispatch ==
    /\ InitCommon
    /\ InitHid
    /\ InitButtonsWith({SampleButtonTable}, {4})
    /\ InitEncoder
    /\ InitSeqIdle
    /\ InitLedWith({GeneratedLedConfiguration}, {NEO_REVERSED})

NextDispatch == RunKeySequence \/ HandleButton

SpecDispatch == InitDispatch /\ [][NextDispatch]_vars

\* the keyboard, mouse and consumer transport calls among `cs`
TransportCalls(cs) ==
    SelectSeq(cs, LAMBDA c : c[1] \in {"Keyboard_press", "Keyboard_releaseAll",
                                      "Mouse_move", "Mouse_click", "Mouse_scroll",
                                      "Keyboard_consumer_send",
                                      "Keyboard_consumer_try_send"})

\* the modifier keys by mask bit, in the order they are pressed
ModifierKeys ==
    << <<1, KEY_LEFT_CTRL>>, <<2, KEY_LEFT_SHIFT>>, <<4, KEY_LEFT_ALT>>,
       <<8, KEY_LEFT_GUI>> >>

\* the calls a key step is to make
ExpectedKeyStep(step) ==
    LET set == SelectSeq(ModifierKeys, LAMBDA k : (step.modifiers \div k[1]) % 2 = 1)
    IN  [n \in 1..Len(set) |-> <<"Keyboard_press", set[n][2], 0>>]
        \o (IF step.keycode # 0 THEN << <<"Keyboard_press", step.keycode, 0>> >> ELSE <<>>)
        \o << <<"delay", IF step.hold_ms = 0 THEN 10 ELSE step.hold_ms, 0>> >>
        \o << <<"Keyboard_releaseAll", 0, 0>> >>
        \o (IF step.gap_ms > 0 THEN << <<"delay", step.gap_ms, 0>> >> ELSE <<>>)

\* the calls of one step run on its own
StepAlone(step, mode) ==
    IF step.kind = "HID_STEP_KEY"
    THEN ExpectedKeyStep(step)
    ELSE RunStep([calls |-> <<>>, pending |-> 0, phase |-> 0, pressed |-> pressed_s],
                 step, mode).calls

\* the calls of the steps i, i+1, ... one after the other
RECURSIVE InIndexOrder(_, _, _)
InIndexOrder(sequence, mode, i) ==
    IF i >= sequence.length THEN <<>>
    ELSE StepAlone(sequence.steps[i], mode) \o InIndexOrder(sequence, mode, i + 1)

\* C9: a key sequence run with mode Press or Click makes the calls of its
\* steps in index order, and a key step's calls are: press of each modifier
\* whose bit is set (Ctrl 0x1, Shift 0x2, Alt 0x4, GUI 0x8), press of the
\* primary key if the keycode is non-zero, a delay of hold_ms (10 when
\* hold_ms is 0), release_all, then the gap_ms delay; a Press of button 0 of
\* the sample table makes the transport calls press('a') then release_all()
\* and no other.
C9_KeyStepOrder ==
    /\ (op = "hid_run_key_sequence" /\ run_mode # HID_TRIGGER_RELEASE) =>
          calls = InIndexOrder(run_sequence, run_mode, 0)
    /\ (op = "hid_handle_button"
            /\ calls[1] = <<"hid_handle_button", 0, HID_TRIGGER_PRESS>>) =>
          /\ TransportCalls(calls) =
                << <<"Keyboard_press", 97, 0>>, <<"Keyboard_releaseAll", 0, 0>> >>
          /\ Tail(calls) = << <<"led_presskey", 0, 0>>, <<"Keyboard_press", 97, 0>>,
                              <<"delay", 10, 0>>, <<"Keyboard_releaseAll", 0, 0>> >>

\* all four modifiers, a key, the default hold and a gap, then a plain key
C9_Witness ==
    /\ op = "hid_run_key_sequence"
    /\ run_mode = HID_TRIGGER_CLICK
    /\ run_sequence.length = 2
    /\ run_sequence.steps[0] = KeyStep(98, 15, 0, 5)
    /\ run_sequence.steps[1] = KeyStep(97, 0, 10, 0)
    /\ calls = << <<"Keyboard_press", KEY_LEFT_CTRL, 0>>,
                  <<"Keyboard_press", KEY_LEFT_SHIFT, 0>>,
                  <<"Keyboard_press", KEY_LEFT_ALT, 0>>,
                  <<"Keyboard_press", KEY_LEFT_GUI, 0>>,
                  <<"Keyboard_press", 98, 0>>, <<"delay", 10, 0>>,
                  <<"Keyboard_releaseAll", 0, 0>>, <<"delay", 5, 0>>,
                  <<"Keyboard_press", 97, 0>>, <<"delay", 10, 0>>,
                  <<"Keyboard_releaseAll", 0, 0>> >>

\* C10: a key sequence run with mode Release makes no call at all (no
\* keyboard, mouse or consumer transport call, no delay, no function
\* handler) and leaves the pending count, the phase and the LED marks as
\* they were, whatever the sequence holds.
C10_ReleaseIsNoOp ==
    (op = "hid_run_key_sequence" /\ run_mode = HID_TRIGGER_RELEASE) =>
        /\ calls = <<>>
        /\ consumer_volume_pending_s = pending_before
        /\ consumer_phase_s = phase_before
        /\ pressed_s = pressed_before

\* a release run of a sequence holding a function step and a key step
C10_Witness ==
    /\ op = "hid_run_key_sequence"
    /\ run_mode = HID_TRIGGER_RELEASE
    /\ run_sequence.length = 2
    /\ run_sequence.steps[0] = FunctionStep(FN_VOLUME_UP, 0, 0)
    /\ run_sequence.steps[1] = KeyStep(98, 15, 0, 5)
    /\ calls = <<>>
    /\ consumer_volume_pending_s = 0

\* `cs` n times over
RECURSIVE Repeated(_, _)
Repeated(cs, n) == IF n = 0 THEN <<>> ELSE cs \o Repeated(cs, n - 1)

\* the handler invocations and the delays among `cs`
InvocationsAndDelays(cs) ==
    SelectSeq(cs, LAMBDA c : c[1] \in {"functionPointer", "delay"})

\* C14: a function step with a bound handler, run with mode Press or Click,
\* invokes the handler max(1, function_value) times with that mode, and
\* each of the invocations is followed by its own delay of gap_ms (when
\* gap_ms is not 0).
C14_GapAfterEachInvocation ==
    (/\ op = "hid_run_key_sequence"
     /\ run_mode # HID_TRIGGER_RELEASE
     /\ run_sequence.length = 1
     /\ run_sequence.steps[0].kind = "HID_STEP_FUNCTION"
     /\ run_sequence.steps[0].functionPointer # FN_NULL) =>
        LET step  == run_sequence.steps[0]
            times == IF step.function_value > 1 THEN step.function_value ELSE 1
            gap   == IF step.gap_ms > 0 THEN << <<"delay", step.gap_ms, 0>> >> ELSE <<>>
        IN  InvocationsAndDelays(calls) =
                Repeated(<< <<"functionPointer", step.functionPointer, run_mode>> >> \o gap,
                         times)

----------------------------------------------------------------------------
(* The dispatcher under a stream of events: button presses and releases    *)
(* and encoder clicks, in any order                                        *)

\* hid_handle_button(button_index, mode), as the button engine calls it
ButtonEvent ==
    /\ \E button_index \in 0..(BindingCount(button_bindings) + 1), mode \in TriggerModes :
          LET m == hid_handle_button(Thread, button_bindings, button_index, mode)
          IN  /\ m.pending \in (-MaxPending)..MaxPending
              /\ Commit("hid_handle_button", m)
    /\ UNCHANGED <<buttonVars, encVars, seqVars, ledVars>>

\* hid_handle_encoder(encoder_index, clockwise), as the encoder engine calls it
EncoderEvent ==
    /\ \E encoder_index \in 0..(BindingCount(EventEncoderTable) + 1), clockwise \in BOOLEAN :
          LET m == hid_handle_encoder(Thread, EventEncoderTable, encoder_index, clockwise)
          IN  /\ m.pending \in (-MaxPending)..MaxPending
              /\ Commit("hid_handle_encoder", m)
    /\ UNCHANGED <<buttonVars, encVars, seqVars, ledVars>>

InitEvents ==
    /\ InitCommon
    /\ InitHid
    /\ InitButtonsWith({EventButtonTable}, {5})
    /\ InitEncoder
    /\ InitSeqIdle
    /\ InitLedWith({GeneratedLedConfiguration}, {NEO_REVERSED})

NextEvents == ButtonEvent \/ EncoderEvent

SpecEvents == InitEvents /\ [][NextEvents]_vars

\* the thread the last operation started with, once it has handled the LED
Fresh ==
    [calls |-> <<>>, pending |-> pending_before, phase |-> phase_before,
     pressed |-> pressed_s]

\* the calls from the n-th on
From(cs, n) == SubSeq(cs, n, Len(cs))

\* the binding an encoder event selects
Directional(i, cw) ==
    IF cw = 1 THEN EventEncoderTable[i].clockwise
    ELSE EventEncoderTable[i].counter_clockwise

C12_EveryVariantRuns ==
    \A i \in DOMAIN EventEncoderTable, cw \in {0, 1} :
        (op = "hid_handle_encoder" /\ calls[1] = <<"hid_handle_encoder", i, cw>>) =>
            LET fn == Directional(i, cw)
                ran == Tail(calls)
            IN  CASE fn.type = "HID_BINDING_FUNCTION" ->
                       /\ ran = << <<"functionPointer", fn.functionPointer,
                                     HID_TRIGGER_CLICK>> >>
                       /\ fn.functionPointer = FN_VOLUME_UP =>
                             consumer_volume_pending_s = pending_before + 1
                  [] fn.type = "HID_BINDING_MOUSE" ->
                       Len(TransportCalls(ran)) = fn.mouse.length
                  [] fn.type = "HID_BINDING_SEQUENCE" ->
                       ran = hid_run_key_sequence(Fresh, fn.sequence,
                                                  HID_TRIGGER_CLICK).calls
                  [] OTHER ->
                       /\ ran = <<>>
                       /\ consumer_volume_pending_s = pending_before

\* C13: hid_handle_encoder(index, clockwise) for an in-range encoder runs
\* one binding, the clockwise one when clockwise is true and the
\* counter-clockwise one otherwise, with trigger mode Click: every handler
\* it invokes gets Click; and it makes no LED call and leaves every LED
\* pressed flag as it was.
C13_EncoderRunsOneBinding ==
    \A i \in DOMAIN EventEncoderTable, cw \in {0, 1} :
        (op = "hid_handle_encoder" /\ calls[1] = <<"hid_handle_encoder", i, cw>>) =>
            LET ran == hid_run_binding(Fresh, Directional(i, cw), HID_TRIGGER_CLICK)
            IN  /\ Tail(calls) = ran.calls
                /\ consumer_volume_pending_s = ran.pending
                /\ consumer_phase_s = phase_before
                /\ \A k \in 1..Len(calls) :
                      /\ calls[k][1] = "functionPointer" => calls[k][3] = HID_TRIGGER_CLICK
                      /\ calls[k][1] # "led_presskey"
                /\ pressed_s = pressed_before

\* a clockwise click of encoder 1 while LED 0 is marked: its clockwise
\* sequence ran the volume-up step with Click, the mark stayed
C13_Witness ==
    /\ op = "hid_handle_encoder"
    /\ calls = << <<"hid_handle_encoder", 1, 1>>,
                  <<"functionPointer", FN_VOLUME_UP, HID_TRIGGER_CLICK>> >>
    /\ consumer_volume_pending_s = pending_before + 1
    /\ pressed_before[0]
    /\ pressed_s[0]

----------------------------------------------------------------------------
(* Actions of the LED engine: led_init once, then led_update and           *)
(* led_set_key_state calls, the clock moving between the updates           *)

\* the clock values led_init is called at: early, and shortly before the
\* millisecond counter wraps
BootTimes == {5, 2 ^ 30 - 10}

\* the milliseconds between two led_update calls of a main loop that is
\* busy with key events
KeyPollElapsed == 70

\* the milliseconds that pass between two led_update calls
ElapsedChoices == {0, 25, 55, 70, 1300, 4100, 65561}

\* the statics and the pixels an LED operation leaves behind
LedCommit(l) ==
    /\ last_rainbow_step_ms_s' = l.last_rainbow_step_ms_s
    /\ last_breath_step_ms_s' = l.last_breath_step_ms_s
    /\ breath_percent_s' = l.breath_percent_s
    /\ breath_descending_s' = l.breath_descending_s
    /\ rainbow_phase_s' = l.rainbow_phase_s
    /\ neo' = l.pixels

\* led_init()
LedInit ==
    /\ op = "init"
    /\ \E boot \in BootTimes :
        /\ millis' = Millis(boot)
        /\ LedCommit(led_init(LedThread, Millis(boot)))
        /\ led_hist' = [LedHistIdle EXCEPT !.clock = boot, !.t_init = boot,
                                           !.t_rainbow = boot, !.t_breath = boot]
    /\ Commit("led_init", Thread)
    /\ UNCHANGED <<buttonVars, encVars, seqVars, led_cfg_s, neo_reversed>>

\* led_update(), `dt` milliseconds after the led_update or led_init before it
LedUpdateAfter(choices) ==
    /\ op # "init"
    /\ led_hist.updates < MaxLedUpdates
    /\ \E dt \in choices :
      \E l \in {led_update(LedThread, led_cfg_s, pressed_s, Millis(led_hist.clock + dt))} :
        LET clock == led_hist.clock + dt
            e_rainbow == clock - led_hist.t_rainbow
            e_breath == clock - led_hist.t_breath
        IN  /\ millis' = Millis(clock)
            /\ LedCommit(l)
            /\ led_hist' =
                  [led_hist EXCEPT
                      !.clock = clock,
                      !.e_rainbow = e_rainbow,
                      !.e_breath = e_breath,
                      !.t_rainbow = IF l.last_rainbow_step_ms_s = last_rainbow_step_ms_s
                                       /\ l.rainbow_steps = 0
                                    THEN @
                                    ELSE clock - U16(Millis(clock) - l.last_rainbow_step_ms_s),
                      !.t_breath = IF l.last_breath_step_ms_s = last_breath_step_ms_s
                                      /\ l.breath_steps = 0
                                   THEN @
                                   ELSE clock - U16(Millis(clock) - l.last_breath_step_ms_s),
                      !.updates = @ + 1,
                      !.regular = @ /\ e_breath < BreathStepCap * breathing_step_ms(led_cfg_s),
                      !.before = [LedThread EXCEPT !.pixels = <<>>],
                      !.rainbow_steps = l.rainbow_steps,
                      !.breath_steps = l.breath_steps,
                      !.breath_total = @ + l.breath_steps,
                      !.trace = l.trace]
    /\ Commit("led_update", Thread)
    /\ UNCHANGED <<buttonVars, encVars, seqVars, led_cfg_s, neo_reversed>>

\* led_update() called from the main loop at any of the elapsed times
LedUpdate == LedUpdateAfter(ElapsedChoices)

\* led_update() called from the main loop at its regular pace while keys
\* are being pressed and released
LedUpdateKeys == LedUpdateAfter({KeyPollElapsed})

\* led_set_key_state(key, pressed)
LedSetKeyState ==
    /\ op # "init"
    /\ led_hist.updates < MaxLedUpdates
    /\ \E key \in (-1)..NEO_COUNT, pressed \in BOOLEAN :
          Commit("led_set_key_state",
                 [Call(Thread, "led_set_key_state", key, IF pressed THEN 1 ELSE 0)
                     EXCEPT !.pressed = led_set_key_state(pressed_s, led_cfg_s, key, pressed)])
    /\ UNCHANGED <<buttonVars, encVars, seqVars, ledVars>>

InitLed ==
    /\ InitCommon
    /\ InitHid
    /\ InitButtonsWith({<<>>}, {0})
    /\ InitEncoder
    /\ InitSeqIdle
    /\ InitLedWith(LedConfigurations, {0, 1})

\* the animations over time, no key held
NextLed == LedInit \/ LedUpdate

SpecLed == InitLed /\ [][NextLed]_vars

\* the rendering while keys are pressed and released
NextLedKeys == LedInit \/ LedUpdateKeys \/ LedSetKeyState

SpecLedKeys == InitLed /\ [][NextLedKeys]_vars

----------------------------------------------------------------------------
(* Properties of the LED engine                                            *)

Leds == 0..(led_cfg_s.count - 1)

\* a color with every channel at `percent` percent, rounded down
Dimmed(color, percent) ==
    Rgb((color.r * percent) \div 100, (color.g * percent) \div 100,
        (color.b * percent) \div 100)

\* what the LED shows by its passive mode: the render of the same animation
\* state with no key held
PassiveShown(led) ==
    RenderLed(LedThread, led_cfg_s, [i \in DOMAIN pressed_s |-> FALSE], led)

\* C16: after led_update every LED shows, in strict priority: its active
\* color scaled by the global brightness only when it is pressed with active
\* mode Solid; black when it is pressed with active mode Off; and otherwise
\* (not pressed, or pressed with active mode Nothing) exactly what its
\* passive mode shows.
C16_RenderPriority ==
    op = "led_update" =>
        \A led \in Leds :
            neo[led_physical_index(led)] =
                IF pressed_s[led] /\ led_cfg_s.active_modes[led] = LED_ACTIVE_SOLID
                THEN Dimmed(led_cfg_s.active_colors[led],
                            clamp_percent(led_cfg_s.brightness_percent))
                ELSE IF pressed_s[led] /\ led_cfg_s.active_modes[led] = LED_ACTIVE_OFF
                THEN Rgb(0, 0, 0)
                ELSE PassiveShown(led)

\* one update rendered a pressed Solid LED, a pressed Off LED whose passive
\* mode is lit, and a pressed Nothing LED that keeps its lit passive color
C16_Witness ==
    /\ op = "led_update"
    /\ \E a, b, c \in Leds :
        /\ pressed_s[a] /\ pressed_s[b] /\ pressed_s[c]
        /\ led_cfg_s.active_modes[a] = LED_ACTIVE_SOLID
        /\ neo[led_physical_index(a)] # PassiveShown(a)
        /\ led_cfg_s.active_modes[b] = LED_ACTIVE_OFF
        /\ PassiveShown(b) # Rgb(0, 0, 0)
        /\ led_cfg_s.active_modes[c] = LED_ACTIVE_NOTHING
        /\ neo[led_physical_index(c)] # Rgb(0, 0, 0)
        /\ neo[led_physical_index(c)] # led_cfg_s.active_colors[c]

\* the configured breathing minimum, at most 100
MinPercent ==
    IF led_cfg_s.breathing_min_percent > 100 THEN 100
    ELSE led_cfg_s.breathing_min_percent

\* the breathing percentage and direction before the last led_update and
\* after each breathing step it took
BreathTrace ==
    <<<<led_hist.before.breath_percent_s, led_hist.before.breath_descending_s>>>>
        \o led_hist.trace

\* C17: in every reachable state the breathing percentage lies between the
\* configured minimum (clamped to 100) and 100; every breathing step moves
\* it by at most 1; and the direction reverses only on a step that finds the
\* percentage at one of the two bounds.
C17_BreathingBounded ==
    /\ breath_percent_s \in MinPercent..100
    /\ \A i \in 1..(Len(BreathTrace) - 1) :
        LET was == BreathTrace[i]
            is == BreathTrace[i + 1]
        IN  /\ is[1] \in MinPercent..100
            /\ is[1] - was[1] \in {-1, 0, 1}
            /\ is[2] # was[2] => was[1] \in {MinPercent, 100}

\* one led_update took breathing steps that turned round at the minimum
\* and at 100, the minimum being below 100
C17_Witness ==
    /\ MinPercent < 100
    /\ \E i, j \in 1..(Len(BreathTrace) - 1) :
        /\ BreathTrace[i] = <<MinPercent, TRUE>>
        /\ BreathTrace[i + 1] = <<MinPercent, FALSE>>
        /\ BreathTrace[j] = <<100, FALSE>>
        /\ BreathTrace[j + 1] = <<100, TRUE>>

\* the breathing step interval in force
BreathStepMs ==
    IF led_cfg_s.breathing_step_ms = 0 THEN LED_BREATH_DEFAULT_STEP_MS
    ELSE led_cfg_s.breathing_step_ms

\* the whole breathing step intervals that have passed since led_init
BreathIntervals == (led_hist.clock - led_hist.t_init) \div BreathStepMs

\* the triangle wave n steps after its start at 100, descending: down to
\* the minimum, one step to turn round, up to 100, one step to turn round
Triangle(n) ==
    LET depth == 100 - MinPercent
        k == n % (2 * depth + 2)
    IN  IF k <= depth + 1
        THEN [percent |-> IF 100 - k < MinPercent THEN MinPercent ELSE 100 - k,
              descending |-> k <= depth]
        ELSE [percent |-> MinPercent + (k - depth - 1), descending |-> FALSE]

\* C18: starting from led_init (100, descending), after N breathing steps
\* the percentage is 100-N clamped at the minimum, then rises again to 100
\* and descends again: a triangle wave, period after period; and N is the
\* number of breathing step intervals that have elapsed since led_init
\* whenever led_update has been called before a backlog beyond its cap
\* built up.
C18_TriangleWave ==
    /\ breath_percent_s = Triangle(led_hist.breath_total).percent
    /\ breath_descending_s = Triangle(led_hist.breath_total).descending
    /\ (/\ op = "led_update"
        /\ led_hist.regular
        /\ HasPassive(led_cfg_s, LED_PASSIVE_BREATHING))
            => led_hist.breath_total = BreathIntervals

\* more than a full period has passed, over several updates, and the wave
\* is on a slope again
C18_Witness ==
    /\ op = "led_update"
    /\ led_hist.regular
    /\ HasPassive(led_cfg_s, LED_PASSIVE_BREATHING)
    /\ led_hist.updates >= 2
    /\ MinPercent < 100
    /\ led_hist.breath_total > 2 * (100 - MinPercent) + 2
    /\ led_hist.breath_total = BreathIntervals
    /\ breath_percent_s \notin {MinPercent, 100}
    /\ breath_descending_s

\* the hue the rolling rainbow gives logical LED i
HueOf(i) == (rainbow_phase_s + ((i * 8) % 192)) % 192

\* C19: the shared rainbow phase always lies in 0..191; each rainbow step
\* of a led_update advances it by exactly 1 modulo 192 (191 wraps to 0);
\* and a rainbow LED i is rendered with the hue
\* (phase + (i*8 mod 192)) mod 192, which lies in 0..191 as well.
C19_RainbowPhase ==
    /\ rainbow_phase_s \in 0..191
    /\ op = "led_update" =>
        /\ rainbow_phase_s =
              (led_hist.before.rainbow_phase_s + led_hist.rainbow_steps) % 192
        /\ \A i \in Leds :
              (~pressed_s[i] /\ passive_mode_for(led_cfg_s, i) = LED_PASSIVE_RAINBOW)
                  => /\ HueOf(i) \in 0..191
                     /\ neo[led_physical_index(i)] =
                            write_scaled_color(led_cfg_s, hue_to_rgb(HueOf(i)), 100)

\* a led_update took the phase past 191 and round to the start, and
\* rendered a rainbow LED that is not the first one
C19_Witness ==
    /\ op = "led_update"
    /\ led_hist.rainbow_steps > 0
    /\ led_hist.before.rainbow_phase_s + led_hist.rainbow_steps >= 192
    /\ rainbow_phase_s < led_hist.before.rainbow_phase_s
    /\ \E i \in Leds : i > 0 /\ passive_mode_for(led_cfg_s, i) = LED_PASSIVE_RAINBOW

\* the steps due after e milliseconds: min(floor(e / step_ms), cap)
StepsDue(e, step_ms, cap) ==
    IF e \div step_ms < cap THEN e \div step_ms ELSE cap

\* the last-step timestamp that leaves the time not consumed by the steps
\* due to the next call
CarriedStamp(e, step_ms, cap) ==
    Millis(led_hist.clock - (e - StepsDue(e, step_ms, cap) * step_ms))

\* C20: a led_update with e milliseconds elapsed since the last animation
\* step, e at least the step interval, advances the animation by
\* min(floor(e / step_ms), cap) steps (cap 64 for the rainbow, 200 for the
\* breathing) and sets the last-step timestamp to now minus the time not
\* consumed; with e below the step interval neither the animation state nor
\* the timestamp changes.
C20_CatchUp ==
    op = "led_update" =>
        /\ HasPassive(led_cfg_s, LED_PASSIVE_RAINBOW) =>
              IF led_hist.e_rainbow >= rainbow_step_ms(led_cfg_s)
              THEN /\ led_hist.rainbow_steps =
                         StepsDue(led_hist.e_rainbow, rainbow_step_ms(led_cfg_s), 64)
                   /\ last_rainbow_step_ms_s =
                         CarriedStamp(led_hist.e_rainbow, rainbow_step_ms(led_cfg_s), 64)
              ELSE /\ led_hist.rainbow_steps = 0
                   /\ rainbow_phase_s = led_hist.before.rainbow_phase_s
                   /\ last_rainbow_step_ms_s = led_hist.before.last_rainbow_step_ms_s
        /\ HasPassive(led_cfg_s, LED_PASSIVE_BREATHING) =>
              IF led_hist.e_breath >= BreathStepMs
              THEN /\ led_hist.breath_steps =
                         StepsDue(led_hist.e_breath, BreathStepMs, 200)
                   /\ last_breath_step_ms_s =
                         CarriedStamp(led_hist.e_breath, BreathStepMs, 200)
              ELSE /\ led_hist.breath_steps = 0
                   /\ breath_percent_s = led_hist.before.breath_percent_s
                   /\ breath_descending_s = led_hist.before.breath_descending_s
                   /\ last_breath_step_ms_s = led_hist.before.last_breath_step_ms_s

\* a channel scaled twice, rounding down each time: by p percent, then by
\* b percent
ScaledTwice(v, p, b) == (((v * p) \div 100) * b) \div 100

\* a color with every channel scaled twice
ColorScaledTwice(color, p, b) ==
    Rgb(ScaledTwice(color.r, p, b), ScaledTwice(color.g, p, b),
        ScaledTwice(color.b, p, b))

\* the color and the per-state percentage of a lit LED: active color at 100
\* when held Solid, else passive color at 100 (Static) or at the breathing
\* percentage (Breathing), else the rainbow hue at 100
LitColor(led) ==
    IF pressed_s[led] /\ led_cfg_s.active_modes[led] = LED_ACTIVE_SOLID
    THEN [color |-> led_cfg_s.active_colors[led], percent |-> 100]
    ELSE IF passive_mode_for(led_cfg_s, led) = LED_PASSIVE_STATIC
    THEN [color |-> led_cfg_s.passive_colors[led], percent |-> 100]
    ELSE IF passive_mode_for(led_cfg_s, led) = LED_PASSIVE_BREATHING
    THEN [color |-> led_cfg_s.passive_colors[led], percent |-> breath_percent_s]
    ELSE [color |-> hue_to_rgb(HueOf(led)), percent |-> 100]

\* the LED is lit: held Solid, or showing a passive mode other than Off
IsLit(led) ==
    \/ pressed_s[led] /\ led_cfg_s.active_modes[led] = LED_ACTIVE_SOLID
    \/ /\ ~(pressed_s[led] /\ led_cfg_s.active_modes[led] = LED_ACTIVE_OFF)
       /\ passive_mode_for(led_cfg_s, led) # LED_PASSIVE_OFF

\* C21: every color channel written for a Solid, Static, Breathing or
\* Rainbow LED is scaled twice with floor rounding: channel v, per-state
\* percentage p and clamped global brightness b give
\* floor(floor(v*p/100)*b/100).
C21_ScaledTwice ==
    op = "led_update" =>
        \A led \in Leds :
            IsLit(led) =>
                neo[led_physical_index(led)] =
                    ColorScaledTwice(LitColor(led).color, LitColor(led).percent,
                                     clamp_percent(led_cfg_s.brightness_percent))

\* where the claim puts logical LED i: at i, or at count-1-i on a reversed
\* strip
PhysicalOf(i) == IF neo_reversed = 0 THEN i ELSE led_cfg_s.count - 1 - i

----------------------------------------------------------------------------
(* Properties of the dispatcher at the edges of its tables                 *)

\* the last operation was the handler `name`, called with an index at or
\* beyond the `count` bindings of its table
OutOfRange(name, count) ==
    /\ op = name
    /\ calls[1][1] = name
    /\ calls[1][2] >= count

\* nothing but the entry into the handler happened: no LED call, no
\* transport call, no delay, no function handler, and the LED marks, the
\* pending count and the phase are as before
SilentNoOp ==
    /\ Len(calls) = 1
    /\ pressed_s = pressed_before
    /\ consumer_volume_pending_s = pending_before
    /\ consumer_phase_s = phase_before

\* C23: hid_handle_button with an index >= button_binding_count and
\* hid_handle_encoder with an index >= encoder_binding_count are silent
\* no-ops: no binding is run, no LED pressed flag and no pending count
\* changes, and no transport call is made.
C23_OutOfRangeIsNoOp ==
    /\ OutOfRange("hid_handle_button", BindingCount(button_bindings)) => SilentNoOp
    /\ OutOfRange("hid_handle_encoder", BindingCount(EventEncoderTable)) => SilentNoOp

\* an out-of-range button event arrived while an LED was marked and volume
\* steps were pending
C23_Witness ==
    /\ OutOfRange("hid_handle_button", BindingCount(button_bindings))
    /\ \E l \in DOMAIN pressed_s : pressed_s[l]
    /\ consumer_volume_pending_s # 0

----------------------------------------------------------------------------
(* The LED marks under button events and led_set_key_state calls           *)

NextLedMarks == ButtonEvent \/ LedSetKeyState

SpecLedMarks == InitEvents /\ [][NextLedMarks]_vars

\* C24: the LED index -1 never indexes the LED arrays: a press or release
\* of a button whose led_index is -1 makes no LED call and changes no LED
\* pressed flag, and led_set_key_state with a key < 0 or >= the logical LED
\* count leaves every pressed flag unchanged (a key in range sets the flag
\* of that LED and no other).
C24_NoLedIndex ==
    /\ (/\ op = "hid_handle_button"
        /\ calls[1][2] < BindingCount(button_bindings)
        /\ button_bindings[calls[1][2]].led_index = -1)
            => /\ pressed_s = pressed_before
               /\ \A k \in 1..Len(calls) : calls[k][1] # "led_presskey"
    /\ op = "led_set_key_state" =>
          LET key == calls[1][2]
          IN  IF key < 0 \/ key >= led_cfg_s.count
              THEN pressed_s = pressed_before
              ELSE pressed_s = [pressed_before EXCEPT ![key] = (calls[1][3] = 1)]

\* led_set_key_state(-1, false) arrived while one LED was marked and
\* another was not
C24_Witness ==
    /\ op = "led_set_key_state"
    /\ calls[1][2] = -1
    /\ calls[1][3] = 0
    /\ \E l \in DOMAIN pressed_s : pressed_s[l]
    /\ \E l \in DOMAIN pressed_s : ~pressed_s[l]

----------------------------------------------------------------------------
(* Both engines on storage smaller than, equal to, or absent for their     *)
(* tables: either the buttons or the encoder of the configuration is there *)
(* or neither. The calls of an engine without bindings are followed when  *)
(* the other engine has none either; next to a configured engine they     *)
(* return at once in the same way and are left out of the run.            *)

InitCapacity ==
    /\ InitCommon
    /\ InitHid
    /\ \/ /\ InitButtonsWith(ButtonTables, ButtonCapacities)
          /\ InitEncoderWith({<<>>}, {CONFIGURATION_ENCODER_CAPACITY})
       \/ /\ InitButtonsWith({<<>>}, {0})
          /\ InitEncoderWith({EncoderTable}, {0, CONFIGURATION_ENCODER_CAPACITY})
    /\ InitSeqIdle
    /\ InitLedWith({GeneratedLedConfiguration}, {NEO_REVERSED})

NextCapacity ==
    \/ BindingCount(encoder_bindings) = 0 /\ ButtonsSetup
    \/ BindingCount(encoder_bindings) = 0 /\ ButtonsUpdate
    \/ BindingCount(button_bindings) = 0 /\ EncoderSetup
    \/ BindingCount(button_bindings) = 0 /\ EncoderUpdate

SpecCapacity == InitCapacity /\ [][NextCapacity]_vars

\* the count a table of `binding_count` bindings gets on storage of `capacity`
RuntimeCount(binding_count, capacity) ==
    IF binding_count = 0 \/ capacity = 0 THEN 0
    ELSE IF binding_count < capacity THEN binding_count ELSE capacity

\* the pins configured or sampled by the operation
PinsTouched == {calls[n][2] : n \in {k \in 1..Len(calls) : calls[k][1] \in {"pinMode", "digitalRead"}}}

\* the indices the operation fired `name` events for
IndicesFired(name) == {calls[n][2] : n \in {k \in 1..Len(calls) : calls[k][1] = name}}

ButtonOps == {"buttons_setup", "buttons_update"}
EncoderOps == {"encoder_setup", "encoder_update"}

----------------------------------------------------------------------------
(* Properties of the bootloader entry *)

\* how many times the operation called `name`
TimesCalled(name) == Cardinality({k \in 1..Len(calls) : calls[k][1] = name})

\* every chord member below the count was sampled active at sample k
ChordHeldAt(k) == ChordMembers # {} /\ \A i \in ChordMembers : ActiveAt(i, k)

IndicatorAt == {k \in 1..Len(calls) : calls[k][1] = "led_show_bootloader_indicator"}

\* what the indicator does from call k on: one NEO_writeHue of NEO_BLUE per
\* logical LED, in order, at its physical index, then one NEO_update
IndicatorCalls ==
    [i \in 1..led_cfg_s.count |-> <<"NEO_writeHue", PhysicalOf(i - 1), NEO_BLUE>>]
        \o << <<"NEO_update", 0, 0>> >>

\* C27: when the chord fires, led_show_bootloader_indicator is called exactly
\* once, after every pin sample, button event and transport call of that
\* tick, and BOOT_now right after it with nothing in between but the
\* indicator's own writes; the indicator writes the blue hue once to every
\* logical LED and latches once, leaves the pressed flags as the button
\* events of the tick left them, and changes no animation state.
C27_IndicatorThenJump ==
    /\ [](TimesCalled("BOOT_now") > 0 =>
            /\ Cardinality(IndicatorAt) = 1
            /\ \A k \in IndicatorAt :
                  /\ From(calls, k + 1) = IndicatorCalls \o << <<"BOOT_now", 0, 0>> >>
                  /\ \A n \in 1..(k - 1) :
                        calls[n][1] \notin {"NEO_writeHue", "NEO_update", "BOOT_now"}
            /\ \A i \in Leds : neo[PhysicalOf(i)] = Rgb(0, 0, 252)
            /\ IndicesFired("hid_handle_button") = {} => pressed_s = pressed_before)
    /\ [][op' = "buttons_update" => UNCHANGED ledStatics]_vars

\* the press of the second chord member completes the chord: its key
\* sequence is sent, then the indicator is shown and the jump made
C27_Witness ==
    /\ op = "buttons_update"
    /\ bootloader
    /\ IndicesFired("hid_handle_button") # {}
    /\ TransportCalls(calls) # <<>>
    /\ \E i \in Leds : pressed_s[i]
    /\ \A i \in Leds : neo[PhysicalOf(i)] = Rgb(0, 0, 252)

----------------------------------------------------------------------------
(* The boot-time check: configuration_bootloader_requested, then setup *)

\* three buttons on LEDs 0, 1 and none, with every choice of the buttons
\* flagged bootloader_on_boot, with and without a chord, in two polarities
BootTables ==
    { [i \in 0..2 |->
         ButtonBinding(SampleButtonTable[i].pin, low[i + 1],
                       SampleButtonTable[i].led_index, i \in on_boot, i \in chord,
                       SampleButtonTable[i].function)] :
        on_boot \in SUBSET (0..2),
        chord \in {{}, {0, 1}},
        low \in {<<TRUE, TRUE, TRUE>>, <<TRUE, FALSE, TRUE>>} }

\* configuration_bootloader_requested(): called once, before setup
BootloaderRequested ==
    /\ op = "init"
    /\ \E levels \in [DOMAIN button_bindings -> {0, 1}] :
        LET r == BootRequestLoop(Thread, button_bindings, levels, 0)
        IN  /\ requested' = r.requested
            /\ pins' = levels
            /\ button_state_before' = button_state_s
            /\ Commit("configuration_bootloader_requested", r.m)
    /\ UNCHANGED <<button_bindings, button_state_capacity_s, button_state_s,
                   button_state_count_s, pins_hist, events_hist, bootloader>>
    /\ UNCHANGED <<encVars, seqVars, ledVars>>

InitBoot ==
    /\ InitCommon
    /\ InitHid
    /\ InitButtonsWith(BootTables, {3})
    /\ InitEncoder
    /\ InitSeqIdle
    /\ InitLedWith({GeneratedLedConfiguration}, {NEO_REVERSED})

NextBoot == BootloaderRequested \/ ButtonsSetup

SpecBoot == InitBoot /\ [][NextBoot]_vars

\* the buttons flagged bootloader_on_boot
OnBoot == {i \in DOMAIN button_bindings : button_bindings[i].bootloader_on_boot}

\* C28: configuration_bootloader_requested returns true exactly when a
\* button flagged bootloader_on_boot is at its active level during the call;
\* it configures and samples flagged buttons only, fires no HID event and
\* makes no transport call, and changes neither the button engine's state,
\* the dispatcher's state nor any LED state.
C28_BootRequest ==
    /\ [](op = "configuration_bootloader_requested" =>
            /\ requested <=> (\E i \in OnBoot : IsActiveLevel(i, pins[i]))
            /\ PinsTouched \subseteq {button_bindings[i].pin : i \in OnBoot}
            /\ \A k \in 1..Len(calls) : calls[k][1] \in {"pinMode", "digitalRead"})
    /\ [][op' = "configuration_bootloader_requested" =>
            UNCHANGED <<button_state_s, button_state_count_s, events_hist, bootloader,
                        pressed_s, consumer_volume_pending_s, consumer_phase_s,
                        encVars, ledVars>>]_vars

\* a chord member that is not flagged is held while the one flagged button
\* is not: no request; and the flagged button held: a request
C28_Witness ==
    /\ op = "configuration_bootloader_requested"
    /\ OnBoot = {2}
    /\ button_bindings[0].bootloader_chord_member
    /\ IsActiveLevel(0, pins[0]) /\ IsActiveLevel(1, pins[1])
    /\ ~IsActiveLevel(2, pins[2])
    /\ ~requested

----------------------------------------------------------------------------
(* The two accumulator forms of the encoder engine side by side *)

\* what the delta form left behind: its calls and the dispatcher state
DeltaFormThread == [Thread EXCEPT !.calls = calls]

\* C29: fed the same samples, the position form and the delta form of the
\* encoder engine make the same calls in the same order in encoder_setup and
\* in every encoder_update, the same hid_handle_encoder(index, direction)
\* events among them, and leave the dispatcher in the same state; and after
\* every call position minus reported position equals the delta counter of
\* every encoder, and the previous samples agree.
C29_FormsAgree ==
    op \in EncoderOps =>
        /\ position_form.m = DeltaFormThread
        /\ EncoderEvents(position_form.m.calls, 0) = EncoderEvents(calls, 0)
        /\ position_form.prev = encoder_prev_values_s
        /\ \A i \in DOMAIN encoder_delta_s :
              position_form.position[i] - position_form.reported[i] = encoder_delta_s[i]

\* after a full turn one way and a click back, both forms have reported
\* the click back in this call
C29_Witness ==
    /\ op = "encoder_update"
    /\ position_form.position[0] = 0
    /\ position_form.reported[0] = 0
    /\ Len(enc_events_hist) = 2
    /\ EncoderEvents(position_form.m.calls, 0) # <<>>

----------------------------------------------------------------------------
(* Key sequences played from inside the button engine *)

\* three buttons with key sequences of two steps (Shift+'a' with a gap, then
\* 'b'), of one step with a gap, and of a pause and a key; without a chord
\* and with buttons 0 and 1 as the chord
PlaybackTables ==
    { (0 :> ButtonBinding(11, TRUE, 0, FALSE, chord,
              SequenceBinding([steps |-> (0 :> KeyStep(97, 2, 10, 5)
                                          @@ 1 :> KeyStep(98, 0, 0, 0)),
                               length |-> 2]))
       @@ 1 :> ButtonBinding(17, TRUE, 1, FALSE, chord,
              SequenceBinding(OneStep(KeyStep(99, 0, 20, 5))))
       @@ 2 :> ButtonBinding(33, TRUE, -1, FALSE, FALSE,
              SequenceBinding([steps |-> (0 :> PauseStep(7)
                                          @@ 1 :> KeyStep(100, 1, 10, 0)),
                               length |-> 2]))) :
        chord \in BOOLEAN }

InitPlayback ==
    /\ InitCommon
    /\ InitHid
    /\ InitButtonsWith(PlaybackTables, {3})
    /\ InitEncoder
    /\ InitSeqIdle
    /\ InitLedWith({GeneratedLedConfiguration}, {NEO_REVERSED})

SpecPlayback == InitPlayback /\ [][NextButtons]_vars

\* the calls a Press or Release of button i is to make after the event is
\* raised: the LED call if the button has an LED, then on a Press every call
\* of every step of its sequence
Playback(i, mode) ==
    (IF button_bindings[i].led_index >= 0
     THEN << <<"led_presskey",
               IF mode = HID_TRIGGER_PRESS THEN button_bindings[i].led_index ELSE -1,
               0>> >>
     ELSE <<>>)
    \o (IF mode = HID_TRIGGER_PRESS
        THEN InIndexOrder(button_bindings[i].function.sequence, mode, 0)
        ELSE <<>>)

\* the positions of the button events in the calls of the operation
EventsAt == {k \in 1..Len(calls) : calls[k][1] = "hid_handle_button"}

\* C30: in buttons_setup and buttons_update a button event is raised only
\* right after the sample of its own pin that showed the change, and the
\* key sequence it starts runs to completion at once: the calls that follow
\* the event are exactly those of the whole sequence, with no pin sample, no
\* other event and no consumer transmission of hid_service among them, and
\* only then is the next pin sampled (or the bootloader entered); the
\* LED engine's state and the pixels are not touched meanwhile.
C30_RunsToCompletion ==
    /\ [](op \in ButtonOps =>
            \A k \in EventsAt :
                LET i    == calls[k][2]
                    mode == calls[k][3]
                    body == Playback(i, mode)
                    next == k + Len(body) + 1
                IN  /\ k > 1
                    /\ calls[k - 1][1] = "digitalRead"
                    /\ calls[k - 1][2] = button_bindings[i].pin
                    /\ IsActiveLevel(i, calls[k - 1][3]) <=> mode = HID_TRIGGER_PRESS
                    /\ Len(calls) >= k + Len(body)
                    /\ SubSeq(calls, k + 1, k + Len(body)) = body
                    /\ next <= Len(calls) =>
                          calls[next][1] \in {"pinMode", "digitalRead",
                                              "led_show_bootloader_indicator"})
    /\ [][op' \in ButtonOps /\ ~bootloader' => UNCHANGED ledVars]_vars

\* buttons 0 and 1 went down since the last tick: the two steps of button
\* 0's sequence are sent in full before pin 1 is sampled and its press raised
C30_Witness ==
    /\ op = "buttons_update"
    /\ ~bootloader
    /\ \E a, b \in EventsAt :
          /\ calls[a] = <<"hid_handle_button", 0, HID_TRIGGER_PRESS>>
          /\ calls[b] = <<"hid_handle_button", 1, HID_TRIGGER_PRESS>>
          /\ b = a + Len(Playback(0, HID_TRIGGER_PRESS)) + 2
          /\ Len(TransportCalls(Playback(0, HID_TRIGGER_PRESS))) = 5

----------------------------------------------------------------------------
(* Mouse-macro executor (keyboard.cpp) *)

\* the switch of keyboard_run_mouse_sequence on one event
MouseEvent(m, event) ==
    LET t == event.type
        v == event.value
    IN  CASE t = "UP"          -> Call(m, "Mouse_move", 0, -v)
          [] t = "DOWN"        -> Call(m, "Mouse_move", 0, v)
          [] t = "LEFT"        -> Call(m, "Mouse_move", -v, 0)
          [] t = "RIGH"        -> Call(m, "Mouse_move", v, 0)
          [] t = "LEFT_CLICK"  -> Call(m, "Mouse_click", MOUSE_LEFT, 0)
          [] t = "RIGHT_CLICK" -> Call(m, "Mouse_click", MOUSE_RIGHT, 0)
          [] t = "SCROLL_UP"   -> Call(m, "Mouse_scroll", v, 0)
          [] t = "SCROLL_DOWN" -> Call(m, "Mouse_scroll", -v, 0)
          [] OTHER             -> m

\* the loop of keyboard_run_mouse_sequence from event i on: the event, then
\* Keyboard_releaseAll() if a holder key is configured, then delay(delay)
RECURSIVE MouseEventLoop(_, _, _)
MouseEventLoop(m, macro, i) ==
    IF i > macro.length THEN m
    ELSE LET sent == MouseEvent(m, macro.mouse_event_sequence[i])
             released == CallIf(macro.keypress > 0, sent, "Keyboard_releaseAll", 0, 0)
         IN  MouseEventLoop(Call(released, "delay", macro.delay, 0), macro, i + 1)

\* keyboard_run_mouse_sequence(sequence, mode)
keyboard_run_mouse_sequence(m, macro, mode) ==
    IF mode = HID_TRIGGER_RELEASE THEN m
    ELSE LET held == IF macro.keypress > 0
                     THEN Call(Call(m, "Keyboard_press", macro.keypress, 0),
                               "delay", 30, 0)
                     ELSE m
         IN  MouseEventLoop(held, macro, 1)

\* the pointer events the macros are built from
MouseEvents ==
    { [type |-> "UP", value |-> 5], [type |-> "RIGH", value |-> 3],
      [type |-> "LEFT_CLICK", value |-> 0], [type |-> "SCROLL_DOWN", value |-> 1],
      [type |-> "NONE", value |-> 0] }

\* sequences of at most n pointer events
RECURSIVE EventSeqs(_)
EventSeqs(n) ==
    IF n = 0 THEN {<<>>}
    ELSE EventSeqs(n - 1) \cup {Append(q, e) : q \in EventSeqs(n - 1), e \in MouseEvents}

\* the macros run: up to MaxSteps events, with and without a delay, with
\* and without a holder key (Shift)
MouseMacros ==
    { MouseMacro(events, delay, keypress) :
        events \in EventSeqs(MaxSteps), delay \in {0, 5}, keypress \in {0, KEY_LEFT_SHIFT} }

\* keyboard_run_mouse_sequence(macro, mode), as keyboard_press_button calls it
RunMouseSequence ==
    /\ op = "init"
    /\ \E macro \in MouseMacros, mode \in TriggerModes :
        /\ run_sequence' = macro
        /\ run_mode' = mode
        /\ Commit("keyboard_run_mouse_sequence",
                  keyboard_run_mouse_sequence(Thread, macro, mode))
    /\ UNCHANGED <<buttonVars, encVars, ledVars>>

InitMouse ==
    /\ InitCommon
    /\ InitHid
    /\ InitButtonsWith({<<>>}, {0})
    /\ InitEncoder
    /\ InitSeqIdle
    /\ InitLedWith({GeneratedLedConfiguration}, {NEO_REVERSED})

NextMouse == RunMouseSequence

SpecMouse == InitMouse /\ [][NextMouse]_vars

\* the keys held after the first n calls of the operation
RECURSIVE HeldAfter(_)
HeldAfter(n) ==
    IF n = 0 THEN {}
    ELSE IF calls[n][1] = "Keyboard_press" THEN HeldAfter(n - 1) \cup {calls[n][2]}
    ELSE IF calls[n][1] = "Keyboard_releaseAll" THEN {}
    ELSE HeldAfter(n - 1)

\* the positions of the pointer events among the calls of the operation
PointerAt ==
    {n \in 1..Len(calls) : calls[n][1] \in {"Mouse_move", "Mouse_click", "Mouse_scroll"}}

\* C31: a mouse macro with a holder key, run with mode Press or Click,
\* presses the holder before the first pointer event, still holds it when
\* each pointer event is sent, the last one included, and has released it
\* when the macro is over.
C31_HolderHeldThroughout ==
    (op = "keyboard_run_mouse_sequence" /\ run_mode # HID_TRIGGER_RELEASE
        /\ run_sequence.keypress > 0) =>
        /\ \A n \in PointerAt : run_sequence.keypress \in HeldAfter(n - 1)
        /\ HeldAfter(Len(calls)) = {}

----------------------------------------------------------------------------
(* The consumer-control queue over a whole run *)

\* how many reports with the code were accepted so far
SentCount(code) == Len(SelectSeq(consumer_hist.sent, LAMBDA c : c = code))

\* volume steps accepted by the host so far, up counted positive
NetSent == SentCount(HID_CONSUMER_VOLUME_INCREMENT) - SentCount(HID_CONSUMER_VOLUME_DECREMENT)

\* C32: volume steps are conserved.  Under any interleaving of Press or
\* Click triggers with hid_service calls whose sends succeed or fail, the
\* accepted INCREMENT reports minus the accepted DECREMENT reports, plus the
\* pending count, equal the up triggers minus the down triggers; and
\* hid_service never moves the pending count away from zero.
C32_StepsConserved ==
    /\ NetSent + consumer_volume_pending_s = consumer_hist.up - consumer_hist.down
    /\ op = "hid_service" =>
          IF pending_before >= 0
          THEN consumer_volume_pending_s \in 0..pending_before
          ELSE consumer_volume_pending_s \in pending_before..0

\* both directions have been sent, a step is pending and the last send of
\* it was refused
C32_Witness ==
    /\ AttemptFailed
    /\ SentCount(HID_CONSUMER_VOLUME_INCREMENT) > 0
    /\ SentCount(HID_CONSUMER_VOLUME_DECREMENT) > 0
    /\ consumer_volume_pending_s # 0
    /\ Attempts[1][2] # 0

\* C33: among the consumer reports the transport accepted, volume codes and
\* the release code 0 alternate strictly, a volume code first; and the
\* release code is never attempted while the queue is Idle.
C33_VolumeReleaseAlternate ==
    /\ \A i \in 1..Len(consumer_hist.sent) :
          IF i % 2 = 1
          THEN consumer_hist.sent[i] \in {HID_CONSUMER_VOLUME_INCREMENT,
                                         HID_CONSUMER_VOLUME_DECREMENT}
          ELSE consumer_hist.sent[i] = 0
    /\ consumer_phase_s = Len(consumer_hist.sent) % 2
    /\ (op = "hid_service" /\ phase_before = 0) =>
          \A i \in 1..Len(Attempts) : Attempts[i][2] # 0

\* an increment, its release, a decrement and its release have gone out, the
\* last after a refused attempt
C33_Witness ==
    /\ consumer_hist.sent = <<HID_CONSUMER_VOLUME_INCREMENT, 0,
                              HID_CONSUMER_VOLUME_DECREMENT, 0>>
    /\ op = "hid_service"
    /\ phase_before = 1
    /\ consumer_phase_s = 0
    /\ consumer_hist.up = 2

\* a hid_service call with something to send whose report the transport accepts
HidServiceAccepted ==
    /\ Commit("hid_service", hid_service(Thread, TRUE))
    /\ Len(hid_service(Thread, TRUE).calls) = 1
    /\ UNCHANGED <<buttonVars, encVars, seqVars, ledVars>>

\* the queue when hid_service keeps being called and the transport keeps
\* accepting a report sooner or later
SpecHidFair == InitHidQueue /\ [][NextHid]_vars /\ WF_vars(HidServiceAccepted)

\* every counted trigger of the run has arrived
TriggersOver == consumer_hist.up + consumer_hist.down = MaxPending

\* the reports that drain p pending steps: |p| volume codes of p's sign,
\* each followed by one release
RECURSIVE DrainReports(_)
DrainReports(p) ==
    IF p = 0 THEN <<>>
    ELSE IF p > 0
    THEN <<HID_CONSUMER_VOLUME_INCREMENT, 0>> \o DrainReports(p - 1)
    ELSE <<HID_CONSUMER_VOLUME_DECREMENT, 0>> \o DrainReports(p + 1)

\* the accepted reports from number n + 1 on
SentFrom(n) == SubSeq(consumer_hist.sent, n + 1, Len(consumer_hist.sent))

\* an Idle queue after the last trigger
DrainStart == TriggersOver /\ consumer_phase_s = 0

\* the pending counts p an Idle queue can hold with n reports accepted: each
\* pending step and each pair of reports took a trigger of its own
DrainCases ==
    {c \in ((-MaxPending)..MaxPending) \X (0..(2 * MaxPending)) :
        c[2] % 2 = 0 /\ 2 * (IF c[1] < 0 THEN -c[1] ELSE c[1]) + c[2] <= 2 * MaxPending}

\* C34: the queue drains.  Once no further trigger arrives, with hid_service
\* called again and again and sends accepted again and again, an Idle queue
\* with p steps pending reaches pending = 0 and phase Idle, and by then
\* exactly |p| volume codes of p's sign have gone out, each followed by one
\* release.
C34_QueueDrains ==
    /\ [](DrainStart => <<consumer_volume_pending_s, Len(consumer_hist.sent)>> \in DrainCases)
    /\ \A c \in DrainCases :
          (/\ DrainStart
           /\ consumer_volume_pending_s = c[1]
           /\ Len(consumer_hist.sent) = c[2])
          ~> (/\ consumer_volume_pending_s = 0
              /\ consumer_phase_s = 0
              /\ SentFrom(c[2]) = DrainReports(c[1]))

\* three steps down have drained after the last trigger
C34_Witness ==
    /\ TriggersOver
    /\ consumer_hist.up = 1
    /\ consumer_hist.down = 4
    /\ consumer_volume_pending_s = 0
    /\ consumer_phase_s = 0
    /\ SentFrom(0) = DrainReports(-3)
    /\ op = "hid_service"

----------------------------------------------------------------------------
(* The encoder engine over a whole run *)

\* the table values added for encoder `index` in the first t ticks since setup
RECURSIVE NetSteps(_, _)
NetSteps(index, t) ==
    IF t = 0 THEN 0 ELSE NetSteps(index, t - 1) + enc_steps_hist[t][index]

\* the events of encoder `index` since setup with the direction flag
EventsSinceSetup(index, clockwise) ==
    Len(SelectSeq(enc_events_hist, LAMBDA ev : ev[1] = index /\ ev[2] = clockwise))

\* clockwise minus counter-clockwise events of encoder `index` since setup
NetEvents(index) == EventsSinceSetup(index, 1) - EventsSinceSetup(index, 0)

\* C35: after encoder_setup and after every encoder_update the unreported
\* accumulation of every encoder lies in -3..3, in the delta form and in the
\* position form; four times (clockwise minus counter-clockwise events)
\* differs from the net decoded steps since setup by exactly that
\* accumulation, hence by at most 3; and the sum the sample casts to int8
\* fits an int8.
C35_AccumulationBounded ==
    op \in EncoderOps =>
        \A index \in TrackedEncoders :
            /\ encoder_delta_s[index] \in -3..3
            /\ position_form.position[index] - position_form.reported[index] \in -3..3
            /\ NetSteps(index, Len(enc_steps_hist)) - 4 * NetEvents(index)
                  = encoder_delta_s[index]
            /\ op = "encoder_update" =>
                  delta_before[index] + enc_steps_hist[Len(enc_steps_hist)][index]
                      \in -128..127

\* seven steps back since setup: one counter-clockwise event, three steps
\* unreported
C35_Witness ==
    /\ op = "encoder_update"
    /\ NetSteps(0, Len(enc_steps_hist)) = -7
    /\ NetEvents(0) = -1
    /\ encoder_delta_s[0] = -3

\* the digitalRead calls on the pin among the calls of the operation
ReadsOf(pin) == SelectSeq(calls, LAMBDA c : c[1] = "digitalRead" /\ c[2] = pin)

\* C36: an encoder_update that tracks encoders reads pin_a and pin_b of
\* every tracked encoder exactly once and makes at most one
\* hid_handle_encoder call per encoder; and the first encoder_update after
\* encoder_setup makes none for an encoder whose pins read as they did in
\* setup.
C36_OneSampleOneEvent ==
    (op = "encoder_update" /\ encoder_state_count_s > 0) =>
        /\ Len(SelectSeq(calls, LAMBDA c : c[1] = "digitalRead")) = 2 * encoder_state_count_s
        /\ \A index \in TrackedEncoders :
              /\ ReadsOf(encoder_bindings[index].pin_a)
                    = << <<"digitalRead", encoder_bindings[index].pin_a, enc_pins[index][1]>> >>
              /\ ReadsOf(encoder_bindings[index].pin_b)
                    = << <<"digitalRead", encoder_bindings[index].pin_b, enc_pins[index][2]>> >>
              /\ Len(EncoderCallsFor(index)) <= 1
              /\ (/\ Len(enc_steps_hist) = 1
                  /\ prev_before[index] = QuadratureValue(enc_pins[index][1], enc_pins[index][2]))
                 => /\ EncoderCallsFor(index) = <<>>
                    /\ encoder_delta_s[index] = 0

\* the fourth step forward: both pins read once, one clockwise event
C36_Witness ==
    /\ op = "encoder_update"
    /\ Len(enc_steps_hist) = 4
    /\ ReadsOf(31) # <<>>
    /\ ReadsOf(30) # <<>>
    /\ EncoderCallsFor(0) = << <<"hid_handle_encoder", 0, 1>> >>
    /\ delta_before[0] = 3

----------------------------------------------------------------------------
(* Key steps of every modifier mask, and function steps, behind a button *)

\* key steps with every mask of the four modifier bits, two masks with
\* unused bits set, with and without a primary key
KeySteps ==
    { KeyStep(keycode, modifiers, 0, 0) :
        keycode \in {0, 97}, modifiers \in 0..15 \cup {16, 255} }

\* sequences of one key step, and of that key step (now with a gap) followed
\* by Ctrl+'b'
KeyStepSequences ==
    { OneStep(step) : step \in KeySteps }
    \cup { [steps |-> (0 :> [step EXCEPT !.gap_ms = 5] @@ 1 :> KeyStep(98, 1, 20, 0)),
            length |-> 2] : step \in KeySteps }

\* one button without LED bound to each of the sequences
KeyStepTables ==
    { (0 :> ButtonBinding(11, TRUE, -1, FALSE, FALSE, SequenceBinding(sequence))) :
        sequence \in KeyStepSequences }

\* function steps with each handler and with the null pointer, with and
\* without a gap, once (function_value 0 or 1) and twice
FunctionSteps ==
    { FunctionStep(fn, value, gap_ms) :
        fn \in {FN_NULL, FN_VOLUME_UP, FN_VOLUME_DOWN, FN_MUTE},
        value \in {0, 2}, gap_ms \in {0, 6} }

\* one button without LED bound to each function step alone
FunctionStepTables ==
    { (0 :> ButtonBinding(11, TRUE, -1, FALSE, FALSE, SequenceBinding(OneStep(step)))) :
        step \in FunctionSteps }

InitSteps ==
    /\ InitCommon
    /\ InitHid
    /\ InitButtonsWith(KeyStepTables \cup FunctionStepTables, {1})
    /\ InitEncoder
    /\ InitSeqIdle
    /\ InitLedWith({GeneratedLedConfiguration}, {NEO_REVERSED})

SpecSteps == InitSteps /\ [][NextEvents]_vars

\* the call at position n is a key press released within its own key step:
\* only presses and the one hold delay lie between it and a Keyboard_releaseAll
ReleasedInStep(n) ==
    \E k \in (n + 1)..Len(calls) :
        /\ calls[k][1] = "Keyboard_releaseAll"
        /\ \A j \in (n + 1)..(k - 1) : calls[j][1] \in {"Keyboard_press", "delay"}
        /\ Cardinality({j \in (n + 1)..(k - 1) : calls[j][1] = "delay"}) = 1

\* C37: when hid_handle_button or hid_handle_encoder returns, no key or
\* modifier pressed by a key step is still held: every Keyboard_press of a key
\* step is followed, after the hold delay and before the step ends, by
\* Keyboard_releaseAll, whatever the modifier mask and also when the keycode
\* is 0.
C37_NothingLeftHeld ==
    op \in {"hid_handle_button", "hid_handle_encoder"} =>
        /\ HeldAfter(Len(calls)) = {}
        /\ \A n \in 1..Len(calls) : calls[n][1] = "Keyboard_press" => ReleasedInStep(n)

\* a press of the button whose first step is all four modifiers without a
\* primary key: four presses, all released before the second step
C37_Witness ==
    /\ op = "hid_handle_button"
    /\ button_bindings[0].function.sequence.length = 2
    /\ button_bindings[0].function.sequence.steps[0].keycode = 0
    /\ button_bindings[0].function.sequence.steps[0].modifiers = 15
    /\ Len(SelectSeq(calls, LAMBDA c : c[1] = "Keyboard_press")) = 6
    /\ Len(SelectSeq(calls, LAMBDA c : c[1] = "Keyboard_releaseAll")) = 2
    /\ HeldAfter(Len(calls)) = {}

\* the modes the handlers were invoked with by the operation
InvokedModes == {c[3] : c \in {calls[n] : n \in {k \in 1..Len(calls) : calls[k][1] = "functionPointer"}}}

\* the step of the button in the table when it is bound to one step alone
OnlyStep == button_bindings[0].function.sequence.steps[0]

\* C38: a handler bound through a function step is never invoked with mode
\* Release.  hid_handle_button invokes it with the mode it was called with,
\* so with Press for a press and not at all for a release, and never with
\* Click for an event of the button engine; hid_handle_encoder invokes it
\* with Click only.  A function step with a null pointer invokes nothing
\* and still waits gap_ms.
C38_HandlerModes ==
    /\ HID_TRIGGER_RELEASE \notin InvokedModes
    /\ op = "hid_handle_button" =>
          /\ InvokedModes \subseteq {calls[1][3]}
          /\ calls[1][3] = HID_TRIGGER_RELEASE => calls = << calls[1] >>
    /\ op = "hid_handle_encoder" => InvokedModes \subseteq {HID_TRIGGER_CLICK}
    /\ (/\ op = "hid_handle_button"
        /\ calls[1][2] = 0
        /\ calls[1][3] # HID_TRIGGER_RELEASE
        /\ button_bindings[0].function.sequence.length = 1
        /\ OnlyStep.kind = "HID_STEP_FUNCTION"
        /\ OnlyStep.functionPointer = FN_NULL) =>
          calls = << calls[1] >> \o
                  (IF OnlyStep.gap_ms > 0 THEN << <<"delay", OnlyStep.gap_ms, 0>> >> ELSE <<>>)

\* a press of the button bound to a null function step with a gap: no
\* invocation, the gap waited
C38_Witness ==
    /\ op = "hid_handle_button"
    /\ OnlyStep.kind = "HID_STEP_FUNCTION"
    /\ OnlyStep.functionPointer = FN_NULL
    /\ calls = << <<"hid_handle_button", 0, HID_TRIGGER_PRESS>>, <<"delay", 6, 0>> >>

----------------------------------------------------------------------------
(* LED marks under the button engine *)

\* the button events raised by the operation
ButtonEventsRaised == SelectSeq(calls, LAMBDA c : c[1] = "hid_handle_button")

\* C39: a button Release changes only the pressed flag of the released
\* button's own LED: after a tick of the button engine whose only event is
\* the Release of an LED-mapped button, the flag of every other LED is as it
\* was before the tick, so the LED of a button that is still held remains
\* marked pressed.
C39_ReleaseOwnLedOnly ==
    (/\ op = "buttons_update"
     /\ Len(ButtonEventsRaised) = 1
     /\ ButtonEventsRaised[1][3] = HID_TRIGGER_RELEASE
     /\ button_bindings[ButtonEventsRaised[1][2]].led_index >= 0) =>
        \A l \in DOMAIN pressed_s :
            l # button_bindings[ButtonEventsRaised[1][2]].led_index
                => pressed_s[l] = pressed_before[l]

----------------------------------------------------------------------------
(* CDC transmit path (USBCDC.c): the main loop runs the USBSerial functions *)
(* one statement at a time, the USB interrupt comes in between              *)

\* the longest buffer handed to USBSerial_print_n: one byte over a packet
MaxPrint == MAX_PACKET_SIZE + 1

\* the main loop entering the function `fn` at label `pc`
Enter(fn, pc) == [MainIdle EXCEPT !.fn = fn, !.pc = pc]

\* a call of waitForEndpoint or USBSerial_flush that comes back at `back`
CallFrom(m, callee, back) ==
    [m EXCEPT !.pc = callee, !.ret = <<back>> \o @, !.attempts = 0]

\* return to the caller, or to the main loop
ReturnFrom(m) ==
    IF m.ret = <<>> THEN [m EXCEPT !.pc = "idle"]
    ELSE [m EXCEPT !.pc = Head(m.ret), !.ret = Tail(m.ret)]

\* what a read of UsbWritePointer (not volatile) can give: the byte in
\* memory, or the value the function read or wrote last (main.tmp, which
\* every read and write brings up to date)
ReadPointer == {UsbWritePointer, main.tmp}

\* waitForEndpoint going on without looking at the flag
waitForEndpoint_NoWait ==
    /\ main.pc = "wait"
    /\ main' = ReturnFrom([main EXCEPT !.waitok = 1])
    /\ UNCHANGED <<UpPoint2BusyFlag, UsbWritePointer, ControlLineState, UEP2_T_RES, UEP2_T_LEN>>
    /\ UNCHANGED <<coreVars, buttonVars, encVars, seqVars, ledVars>>

\* waitForEndpoint(): one test of while (UpPoint2BusyFlag)
waitForEndpoint ==
    /\ main.pc = "wait"
    /\ main' = IF UpPoint2BusyFlag
               THEN IF main.attempts + 1 >= WAIT_ATTEMPTS
                    THEN ReturnFrom([main EXCEPT !.attempts = @ + 1, !.waitok = 0,
                                                 !.timedout = TRUE])
                    ELSE [main EXCEPT !.attempts = @ + 1]
               ELSE ReturnFrom([main EXCEPT !.waitok = 1])
    /\ UNCHANGED <<UpPoint2BusyFlag, UsbWritePointer, ControlLineState, UEP2_T_RES, UEP2_T_LEN>>
    /\ UNCHANGED <<coreVars, buttonVars, encVars, seqVars, ledVars>>

\* USBSerial_flush(), statement by statement
USBSerial_flush ==
    /\ \/ /\ main.pc = "idle"
          /\ main' = Enter("USBSerial_flush", "flush")
          /\ UNCHANGED <<UpPoint2BusyFlag, UsbWritePointer, UEP2_T_RES, UEP2_T_LEN>>
       \/ /\ main.pc = "flush"
          /\ main' = IF ~UpPoint2BusyFlag /\ UsbWritePointer > 0
                     THEN [main EXCEPT !.pc = "flush_len", !.tmp = UsbWritePointer]
                     ELSE ReturnFrom(main)
          /\ UNCHANGED <<UpPoint2BusyFlag, UsbWritePointer, UEP2_T_RES, UEP2_T_LEN>>
       \/ /\ main.pc = "flush_len"
          /\ UEP2_T_LEN' \in ReadPointer
          /\ main' = [main EXCEPT !.pc = "flush_ack", !.tmp = UEP2_T_LEN']
          /\ UNCHANGED <<UpPoint2BusyFlag, UsbWritePointer, UEP2_T_RES>>
       \/ /\ main.pc \in {"flush_ack", "zlp_ack"}
          /\ UEP2_T_RES' = "ACK"
          /\ main' = [main EXCEPT !.armed = @ + 1,
                          !.pc = IF @ = "flush_ack" THEN "flush_busy" ELSE "zlp_busy"]
          /\ UNCHANGED <<UpPoint2BusyFlag, UsbWritePointer, UEP2_T_LEN>>
       \/ /\ main.pc \in {"flush_busy", "zlp_busy"}
          /\ UpPoint2BusyFlag' = TRUE
          /\ main' = [main EXCEPT
                          !.pc = IF @ = "flush_busy" THEN "flush_full" ELSE "flush_clear"]
          /\ UNCHANGED <<UsbWritePointer, UEP2_T_RES, UEP2_T_LEN>>
       \/ /\ main.pc = "flush_full"
          /\ \E v \in ReadPointer :
                main' = IF v = MAX_PACKET_SIZE
                        THEN CallFrom([main EXCEPT !.tmp = v], "wait", "flush_zlp")
                        ELSE [main EXCEPT !.pc = "flush_clear", !.tmp = v]
          /\ UNCHANGED <<UpPoint2BusyFlag, UsbWritePointer, UEP2_T_RES, UEP2_T_LEN>>
       \/ /\ main.pc = "flush_zlp"
          /\ main' = [main EXCEPT !.pc = IF main.waitok = 1 THEN "zlp_len" ELSE "flush_clear"]
          /\ UNCHANGED <<UpPoint2BusyFlag, UsbWritePointer, UEP2_T_RES, UEP2_T_LEN>>
       \/ /\ main.pc = "zlp_len"
          /\ UEP2_T_LEN' = 0
          /\ main' = [main EXCEPT !.pc = "zlp_ack"]
          /\ UNCHANGED <<UpPoint2BusyFlag, UsbWritePointer, UEP2_T_RES>>
       \/ /\ main.pc = "flush_clear"
          /\ UsbWritePointer' = 0
          /\ main' = ReturnFrom([main EXCEPT !.tmp = 0])
          /\ UNCHANGED <<UpPoint2BusyFlag, UEP2_T_RES, UEP2_T_LEN>>
    /\ UNCHANGED ControlLineState
    /\ UNCHANGED <<coreVars, buttonVars, encVars, seqVars, ledVars>>

\* USBSerial_write(value), statement by statement
USBSerial_write ==
    /\ \/ /\ main.pc = "idle"
          /\ main' = Enter("USBSerial_write", "write")
          /\ UNCHANGED UsbWritePointer
       \/ /\ main.pc = "write"
          /\ main' = IF ControlLineState = 0
                     THEN ReturnFrom([main EXCEPT !.result = 0, !.closed = TRUE])
                     ELSE CallFrom(main, "wait", "write_waited")
          /\ UNCHANGED UsbWritePointer
       \/ /\ main.pc = "write_loop"
          /\ main' = CallFrom(main, "wait", "write_waited")
          /\ UNCHANGED UsbWritePointer
       \/ /\ main.pc = "write_waited"
          /\ main' = IF main.waitok = 0
                     THEN ReturnFrom([main EXCEPT !.result = 0])
                     ELSE IF UsbWritePointer < MAX_PACKET_SIZE
                     THEN [main EXCEPT !.pc = "write_store", !.tmp = UsbWritePointer]
                     ELSE CallFrom(main, "flush", "write_loop")
          /\ UNCHANGED UsbWritePointer
       \/ /\ main.pc = "write_store"
          /\ main' = [main EXCEPT !.pc = "write_inc", !.appended = @ + 1]
          /\ UNCHANGED UsbWritePointer
       \/ /\ main.pc = "write_inc"
          /\ \E v \in ReadPointer :
                /\ UsbWritePointer' = v + 1
                /\ main' = ReturnFrom([main EXCEPT !.result = 1, !.tmp = v + 1])
    /\ UNCHANGED <<UpPoint2BusyFlag, ControlLineState, UEP2_T_RES, UEP2_T_LEN>>
    /\ UNCHANGED <<coreVars, buttonVars, encVars, seqVars, ledVars>>

\* USBSerial_print_n(buffer, length), statement by statement
USBSerial_print_n ==
    /\ \/ /\ main.pc = "idle"
          /\ \E length \in 0..MaxPrint :
                main' = [Enter("USBSerial_print_n", "print") EXCEPT !.length = length]
          /\ UNCHANGED UsbWritePointer
       \/ /\ main.pc = "print"
          /\ main' = IF ControlLineState = 0
                     THEN ReturnFrom([main EXCEPT !.result = 0, !.closed = TRUE])
                     ELSE [main EXCEPT !.pc = "print_loop"]
          /\ UNCHANGED UsbWritePointer
       \/ /\ main.pc = "print_loop"
          /\ main' = IF main.length > 0
                     THEN CallFrom(main, "wait", "print_waited")
                     ELSE ReturnFrom([main EXCEPT !.result = 1])
          /\ UNCHANGED UsbWritePointer
       \/ /\ main.pc = "print_waited"
          /\ main' = IF main.waitok = 0
                     THEN ReturnFrom([main EXCEPT !.result = 0])
                     ELSE [main EXCEPT !.pc = "print_fill", !.tmp = UsbWritePointer]
          /\ UNCHANGED UsbWritePointer
       \/ /\ main.pc = "print_fill"
          /\ \E v \in ReadPointer :
                main' = IF main.length > 0 /\ v < MAX_PACKET_SIZE
                        THEN [main EXCEPT !.pc = "print_inc", !.tmp = v,
                                          !.appended = @ + 1]
                        ELSE [main EXCEPT !.pc = "print_check", !.tmp = v]
          /\ UNCHANGED UsbWritePointer
       \/ /\ main.pc = "print_inc"
          /\ \E v \in ReadPointer :
                /\ UsbWritePointer' = v + 1
                /\ main' = [main EXCEPT !.pc = "print_fill", !.tmp = v + 1,
                                        !.length = @ - 1]
       \/ /\ main.pc = "print_check"
          /\ \E v \in ReadPointer :
                main' = IF v = MAX_PACKET_SIZE
                        THEN CallFrom([main EXCEPT !.tmp = v], "flush", "print_loop")
                        ELSE [main EXCEPT !.pc = "print_loop", !.tmp = v]
          /\ UNCHANGED UsbWritePointer
    /\ UNCHANGED <<UpPoint2BusyFlag, ControlLineState, UEP2_T_RES, UEP2_T_LEN>>
    /\ UNCHANGED <<coreVars, buttonVars, encVars, seqVars, ledVars>>

\* USB_EP2_IN(): the interrupt after the host has taken the armed packet
USB_EP2_IN ==
    /\ UEP2_T_RES = "ACK"
    /\ UEP2_T_LEN' = 0
    /\ UEP2_T_RES' = "NAK"
    /\ UpPoint2BusyFlag' = FALSE
    /\ UNCHANGED <<UsbWritePointer, ControlLineState, main>>
    /\ UNCHANGED <<coreVars, buttonVars, encVars, seqVars, ledVars>>

\* resetCDCParameters(): the bus-reset branch of USBInterrupt
resetCDCParameters ==
    /\ UEP2_T_RES' = "NAK"
    /\ UpPoint2BusyFlag' = FALSE
    /\ UsbWritePointer' = 0
    /\ UNCHANGED <<ControlLineState, UEP2_T_LEN, main>>
    /\ UNCHANGED <<coreVars, buttonVars, encVars, seqVars, ledVars>>

\* setControlLineStateHandler(): the host opens or closes the port
setControlLineStateHandler ==
    /\ \E state \in {0, 3} :
          /\ state # ControlLineState
          /\ ControlLineState' = state
    /\ UNCHANGED <<UpPoint2BusyFlag, UsbWritePointer, UEP2_T_RES, UEP2_T_LEN, main>>
    /\ UNCHANGED <<coreVars, buttonVars, encVars, seqVars, ledVars>>

\* a statement of the main loop
MainStep == USBSerial_write \/ USBSerial_print_n \/ USBSerial_flush \/ waitForEndpoint

InitCdcPath ==
    /\ InitCommon
    /\ InitHid
    /\ InitButtonsWith({<<>>}, {0})
    /\ InitEncoder
    /\ InitSeqIdle
    /\ InitLedWith({GeneratedLedConfiguration}, {NEO_REVERSED})

NextCdc ==
    \/ USBSerial_write
    \/ USBSerial_print_n
    \/ USBSerial_flush
    \/ waitForEndpoint
    \/ USB_EP2_IN
    \/ resetCDCParameters
    \/ setControlLineStateHandler

\* the main loop keeps running; the interrupts come when they come
SpecCdc == InitCdcPath /\ [][NextCdc]_vars /\ WF_vars(MainStep)

\* USBSerial_write has returned
WriteReturned == main.pc = "idle" /\ main.fn = "USBSerial_write"

\* C40: the CDC transmit path under any interleaving of the USB interrupt
\* with the main loop.  USBSerial_write, USBSerial_print_n and
\* USBSerial_flush append a byte or arm the IN endpoint only while
\* UpPoint2BusyFlag is clear; an armed endpoint has the flag set (once the
\* statement that sets it has run), and the flag is cleared only by the
\* USB_EP2_IN interrupt or a bus reset; UsbWritePointer never exceeds
\* MAX_PACKET_SIZE; and USBSerial_write always returns, with 1 after
\* buffering its byte and with 0, nothing buffered, when the port was not
\* open or the endpoint stayed busy past the wait limit.
C40_TransmitPath ==
    /\ [](UsbWritePointer \in 0..MAX_PACKET_SIZE)
    /\ [](UEP2_T_RES = "ACK" =>
            UpPoint2BusyFlag \/ main.pc \in {"flush_busy", "zlp_busy"})
    /\ [][(main'.appended > main.appended \/ main'.armed > main.armed)
            => ~UpPoint2BusyFlag]_vars
    /\ [][(UpPoint2BusyFlag /\ ~UpPoint2BusyFlag') => main' = main]_vars
    /\ [](WriteReturned =>
            \/ main.result = 1 /\ main.appended = 1
            \/ main.result = 0 /\ main.appended = 0 /\ (main.closed \/ main.timedout))
    /\ (main.fn = "USBSerial_write" /\ main.pc # "idle") ~> WriteReturned

\* a write that found the packet full: it armed the packet and the
\* zero-length packet, then buffered its byte
C40_Witness ==
    /\ WriteReturned
    /\ main.result = 1
    /\ main.armed = 2
    /\ UsbWritePointer = 1
    /\ ~main.timedout

====
